---- MODULE Spec2Model ----
(***************************************************************************)
(* State-machine model of the configurator's event bridge:                 *)
(*   - the Connection Registry (lib/psBus.ts),                             *)
(*   - the configurator page's command emitters, readiness poll, inbound   *)
(*     'Info' listener and workflow state (app/configurator/page.tsx),     *)
(*   - the viewer's initialisation and reconnection supervisor             *)
(*     (components/PixelStreamingWrapper.tsx),                             *)
(*   - the retry loops and responses of the generate-mask and              *)
(*     generate-scene routes and the polling loop of generate-video,       *)
(*   - the page's video-generation cooldown and car-image feed.            *)
(*                                                                         *)
(* Every action is one handler of the code run to completion, together     *)
(* with the re-render and the effects its state updates trigger (the UI    *)
(* thread is single-threaded).  A setTimeout callback is a separate step.  *)
(*                                                                         *)
(* Besides the program's state the model keeps the engine's side of the    *)
(* car-load exchange (inflight) and observation variables that the program *)
(* does not have:                                                          *)
(*   out         the commands handed to emitUIInteraction by the last step *)
(*   disconnects the disconnect() calls made by the last step              *)
(*   lastOp      which handler ran last, and with which input              *)
(*   loadCount   Car/LoadById commands emitted for the selected car        *)
(*   loadedBy    the car whose confirmation set isCarLoaded                *)
(***************************************************************************)
EXTENDS Integers, Sequences, FiniteSets, TLC

\* ------------------------------------------------------------------ bounds

\* Pending setTimeout callbacks the model tracks at once.
MaxTimers == 2
\* Screenshots kept in the list.
MaxShots == 2
\* Car/LoadById commands counted per car selection (the count saturates).
MaxLoadCount == 2
\* Values Date.now() is drawn from.
MaxTick == 1
\* Length of a Selection Queue.
MaxQueue == 3
\* Callbacks the viewer's mount effect has pending.
MaxSupTimers == 2
\* convertScreenshots calls under way at once.
MaxPasses == 2

\* ------------------------------------------------------------- value sets

NoHandle == "null"
Handles == {"ps1", "ps2"}
HandleOrNull == Handles \cup {NoHandle}
\* The handle the viewer creates (new PixelStreaming(...)).
Streaming == "ps1"

Signals == {"webRtcConnected", "webRtcDisconnected", "videoInitialized",
            "videoEncoderAvgQP", "dataChannelError"}

Namespace == "Configurator"
CarIds == {"carA", "carB"}
DefaultCar == "carA"
NoUrl == "null"
StreamUrl == "wss://stream"
SeqIds == {"s1", "s2", "s3"}
Ticks == 1..MaxTick

\* ------------------------------------------------------------ JSON values

Undef == [t |-> "undef"]
Null == [t |-> "null"]
Str(s) == [t |-> "str", s |-> s]
Num(n) == [t |-> "num", n |-> n]
Bool(b) == [t |-> "bool", b |-> b]
Obj(f) == [t |-> "obj", f |-> f]
Arr(a) == [t |-> "arr", a |-> a]

\* JavaScript truthiness.
Truthy(j) ==
    CASE j.t \in {"undef", "null"} -> FALSE
      [] j.t = "str" -> j.s # ""
      [] j.t = "num" -> j.n # 0
      [] j.t = "bool" -> j.b
      [] OTHER -> TRUE

\* a || b
Or(a, b) == IF Truthy(a) THEN a ELSE b

\* j?.k : a property of an object, undefined on anything else the handlers
\* read it from (undefined, null, a string, a number, an array).
Get(j, k) == IF j.t = "obj" /\ k \in DOMAIN j.f THEN j.f[k] ELSE Undef

VARIABLES
    \* lib/psBus.ts module state
    globalPixelStreaming, isWebSocketConnected, isVideoStreamActive,
    \* handles on which registerPS has attached its listeners (never detached)
    psListeners,
    \* PixelStreamingWrapper's mount effect: its closure variables streaming
    \* and cleanupDone, and the setTimeout callbacks it has pending (`current`
    \* marks the one reconnectTimeoutId refers to)
    streaming, cleanupDone, supTimers,
    \* the generative-service routes: the progress of each generation call of
    \* the request being served, and the response of the request
    calls, response,
    \* the generate-video route: the long-running operation of the request
    \* being served
    operation,
    \* ConfiguratorContent: video generation state, the value the pending
    \* cooldown timer captured (0 when none is pending), and whether the fetch
    \* of /api/generate-video is under way
    videoCooldown, cooldownTimer, isVideoLoading, videoUrl, videoError, videoFetch,
    \* ConfiguratorContent: the car-image feed, and the convertScreenshots
    \* calls that are waiting for a fetch
    carImages, passes,
    \* ConfiguratorContent: common state
    carId, isReady, isCarLoaded, webSocketUrl,
    \* the handle carrying the page's 'Info' listener, and the isReady that
    \* the listener's loadSequencesForCurrentLevel closure captured
    infoListenerOn, lsnReady,
    \* ConfiguratorContent: configurator state
    selectedColorId, selectedWheelId, selectedBackground, isDayMode,
    \* ConfiguratorContent: photo and video mode state
    mode, screenshots, sequences, isLoadingSequences, selectedSequences,
    isPlaying, renderJob,
    \* pending setTimeout callbacks
    timers,
    \* the engine: cars whose LoadById it has not answered yet
    inflight,
    \* observation
    out, disconnects, lastOp, loadCount, loadedBy

regVars == <<globalPixelStreaming, isWebSocketConnected, isVideoStreamActive, psListeners>>
supVars == <<streaming, cleanupDone, supTimers>>
apiVars == <<calls, response, operation>>
feedVars == <<carImages, passes>>
genVars == <<videoCooldown, cooldownTimer, isVideoLoading, videoUrl, videoError, videoFetch>>
carVars == <<carId, isReady, isCarLoaded, webSocketUrl>>
lsnVars == <<infoListenerOn, lsnReady>>
cfgVars == <<selectedColorId, selectedWheelId, selectedBackground, isDayMode>>
wfVars == <<mode, screenshots, sequences, isLoadingSequences, selectedSequences,
            isPlaying, renderJob>>
envVars == <<timers, inflight>>
histVars == <<loadCount, loadedBy>>
obsVars == <<out, disconnects, lastOp>>
pageVars == <<carVars, lsnVars, cfgVars, wfVars, envVars, histVars>>
vars == <<regVars, supVars, apiVars, genVars, feedVars, pageVars, obsVars>>

Op(name, arg, h) == [op |-> name, arg |-> arg, h |-> h]

\* --------------------------------------------------- Connection Registry

isPSReady == globalPixelStreaming # NoHandle /\ isWebSocketConnected

getPS == globalPixelStreaming

Registry ==
    [ps |-> globalPixelStreaming, connected |-> isWebSocketConnected,
     video |-> isVideoStreamActive, listeners |-> psListeners]

SetRegistry(r) ==
    /\ globalPixelStreaming' = r.ps
    /\ isWebSocketConnected' = r.connected
    /\ isVideoStreamActive' = r.video
    /\ psListeners' = r.listeners

\* The disconnect() calls of one registerPS(ps): one on the previous handle
\* when there is one and it is not ps.  `current` is what getPS() returns
\* while the call is made, `threw` whether the call throws.
DisconnectPrevious(cur, ps, threw) ==
    IF cur # NoHandle /\ cur # ps
    THEN << [target |-> cur, current |-> cur, threw |-> threw] >>
    ELSE << >>

InstalledHandle_Propagates(cur, ps, threw) ==
    IF cur # NoHandle /\ cur # ps /\ threw THEN cur ELSE ps

\* The handle held after registerPS(ps): the try/catch swallows a throwing
\* disconnect, so the assignment is always reached.
InstalledHandle(cur, ps, threw) == ps

ConnectedAfterRegister_KeepsFlag(ps, connected) ==
    IF ps # NoHandle THEN connected ELSE FALSE

\* isWebSocketConnected after registerPS(ps): reset in both branches.
ConnectedAfterRegister(ps, connected) == FALSE

\* registerPS(ps) on registry r.
registerPS(r, ps, threw) ==
    [ps |-> InstalledHandle(r.ps, ps, threw),
     connected |-> ConnectedAfterRegister(ps, r.connected),
     video |-> FALSE,
     listeners |-> IF ps # NoHandle THEN r.listeners \cup {ps} ELSE r.listeners]

\* What the registry's listeners make of a signal: only webRtcConnected and
\* webRtcDisconnected touch the connected flag.
ConnectedAfterSignal(sig, connected) ==
    CASE sig = "webRtcConnected" -> TRUE
      [] sig = "webRtcDisconnected" -> FALSE
      [] OTHER -> connected

VideoAfterSignal(sig, video) ==
    IF sig \in {"videoInitialized", "videoEncoderAvgQP"} THEN TRUE ELSE video

\* A handle fires a signal; the registry's listeners run if registerPS ever
\* attached them to that handle (they are never removed, also not when the
\* handle is replaced).
RegistrySignal(h, sig) ==
    /\ isWebSocketConnected' =
         IF h \in psListeners THEN ConnectedAfterSignal(sig, isWebSocketConnected)
         ELSE isWebSocketConnected
    /\ isVideoStreamActive' =
         IF h \in psListeners THEN VideoAfterSignal(sig, isVideoStreamActive)
         ELSE isVideoStreamActive
    /\ UNCHANGED <<globalPixelStreaming, psListeners>>

\* ------------------------------------------- generative-service routes

MAX_RETRIES == 3

\* The generation calls: the one of generate-mask and the three prompts of
\* generate-scene, in prompt order.
MaskCalls == << "mask" >>
SceneCalls == << "v1", "v2", "v3" >>
CallIds == {"mask", "v1", "v2", "v3"}

NoError == [status |-> 0, text |-> ""]
Idle == [state |-> "idle", attempt |-> 0, last |-> NoError]

\* No request of the generate-video route is being served.
NoOperation == [state |-> "none", attempts |-> 0, error |-> ""]

NoResponse == [route |-> "none", ok |-> FALSE, urls |-> << >>, code |-> ""]

ApiInit ==
    /\ calls = [c \in CallIds |-> Idle]
    /\ response = NoResponse
    /\ operation = NoOperation

\* Errors of one attempt: two of the service with an HTTP status, a network
\* failure without one, and the error of withTimeout.
ServiceErrors ==
    {[status |-> 429, text |-> "rate limit exceeded"],
     [status |-> 0, text |-> "network error"],
     [status |-> 0, text |-> "Request timed out after 60000ms"],
     [status |-> 400, text |-> "blocked by safety policy"]}

\* The error POST of generate-scene throws when no generation returned an
\* image.
NoImagesError ==
    [status |-> 0,
     text |-> "The AI failed to generate any images. This might be due to a safety policy or an API error."]

\* message.includes(word), with and without toLowerCase(), for the texts
\* above.
MessageIncludes(text, word) ==
    \/ text = "network error" /\ word = "network"
    \/ text = "Request timed out after 60000ms" /\ word = "timed out"
    \/ text = "blocked by safety policy" /\ word = "safety"
    \/ text = NoImagesError.text /\ word = "safety"

isRetryableError_Always(error) == TRUE

\* isRetryableError
isRetryableError(error) ==
    \/ error.status \in {503, 502, 504, 429}
    \/ MessageIncludes(error.text, "timeout")
    \/ MessageIncludes(error.text, "network")
    \/ MessageIncludes(error.text, "connection")

\* One pass of the loop body of generate...WithRetry that ends in the catch
\* block: the call fails for good, or waits for calculateDelay(attempt).
AfterError(call, error) ==
    IF ~isRetryableError(error) \/ call.attempt = MAX_RETRIES
    THEN [state |-> "failed", attempt |-> call.attempt, last |-> error]
    ELSE [state |-> "waiting", attempt |-> call.attempt, last |-> error]

\* One pass that returns the image data.
AfterImage(call) == [state |-> "ok", attempt |-> call.attempt, last |-> NoError]

\* The wait is over: the next iteration of the loop.
AfterDelay(call) == [state |-> "trying", attempt |-> call.attempt + 1, last |-> NoError]

Settled(call) == call.state \in {"ok", "failed"}

Succeeded_FirstOnly(route, cs) ==
    IF cs[route[1]].state = "ok" THEN << route[1] >> ELSE << >>

\* results.filter(url => url !== null): the calls of the route that returned
\* an image, in the order of the route.
Succeeded(route, cs) ==
    LET ok == {i \in 1..Len(route) : cs[route[i]].state = "ok"}
        Pick(k) == CHOOSE i \in ok : Cardinality({j \in ok : j <= i}) = k
    IN [k \in 1..Cardinality(ok) |-> route[Pick(k)]]

RouteOf(c) == IF c = "mask" THEN MaskCalls ELSE SceneCalls
RouteName(c) == IF c = "mask" THEN "generate-mask" ELSE "generate-scene"

\* The catch block of POST of generate-mask: the code of the error response.
MaskErrorCode(error) ==
    CASE MessageIncludes(error.text, "timed out") -> "TIMEOUT_ERROR"
      [] error.status = 503 -> "SERVICE_UNAVAILABLE"
      [] error.status = 401 -> "AUTH_ERROR"
      [] error.status = 429 -> "RATE_LIMIT_ERROR"
      [] OTHER -> "PROCESSING_ERROR"

\* The catch block of POST of generate-scene.
SceneErrorCode(error) ==
    CASE MessageIncludes(error.text, "Invalid base64 format") -> "VALIDATION_ERROR"
      [] MessageIncludes(error.text, "safety") -> "SAFETY_ERROR"
      [] MessageIncludes(error.text, "timed out") -> "TIMEOUT_ERROR"
      [] error.status = 503 -> "SERVICE_UNAVAILABLE"
      [] error.status = 401 -> "AUTH_ERROR"
      [] error.status = 429 -> "RATE_LIMIT_ERROR"
      [] OTHER -> "PROCESSING_ERROR"

\* The error the catch block of POST receives: generateMaskWithRetry throws
\* the error of its last attempt, generateSingleImageWithRetry returns null
\* and POST throws its own error.
ErrorCode(c, cs) ==
    IF c = "mask" THEN MaskErrorCode(cs["mask"].last) ELSE SceneErrorCode(NoImagesError)

\* What POST returns once every call of the route has settled: the images if
\* there is one, an error response otherwise.
ResponseAfter(c, cs) ==
    IF \A i \in 1..Len(RouteOf(c)) : Settled(cs[RouteOf(c)[i]])
    THEN [route |-> RouteName(c), ok |-> Succeeded(RouteOf(c), cs) # << >>,
          urls |-> Succeeded(RouteOf(c), cs),
          code |-> IF Succeeded(RouteOf(c), cs) # << >> THEN "OK"
                   ELSE ErrorCode(c, cs)]
    ELSE response

ApiOp(name, c, error) ==
    /\ lastOp' = [op |-> name, arg |-> c, h |-> NoHandle, error |-> error]
    /\ out' = << >>
    /\ disconnects' = << >>
    /\ UNCHANGED <<regVars, supVars, genVars, feedVars, pageVars>>

\* POST of a route: every call of the route starts its first attempt.  The
\* model serves one request at a time.
Post(route) ==
    /\ \A c \in CallIds : calls[c].state \in {"idle", "ok", "failed"}
    /\ calls' = [c \in CallIds |->
                   IF \E i \in 1..Len(route) : route[i] = c
                   THEN [state |-> "trying", attempt |-> 1, last |-> NoError]
                   ELSE Idle]
    /\ response' = NoResponse
    /\ UNCHANGED operation
    /\ ApiOp("POST", route[1], NoError)

\* The attempt of call c returns an image.
AttemptSucceeds(c) ==
    /\ calls[c].state = "trying"
    /\ calls' = [calls EXCEPT ![c] = AfterImage(calls[c])]
    /\ response' = ResponseAfter(c, calls')
    /\ UNCHANGED operation
    /\ ApiOp("image", c, NoError)

\* The attempt of call c ends with an error.
AttemptFails(c, error) ==
    /\ calls[c].state = "trying"
    /\ calls' = [calls EXCEPT ![c] = AfterError(calls[c], error)]
    /\ response' = ResponseAfter(c, calls')
    /\ UNCHANGED operation
    /\ ApiOp("error", c, error)

\* The backoff delay of call c elapses.
DelayElapsed(c) ==
    /\ calls[c].state = "waiting"
    /\ calls' = [calls EXCEPT ![c] = AfterDelay(calls[c])]
    /\ UNCHANGED <<response, operation>>
    /\ ApiOp("retry", c, calls[c].last)

\* ------------------------------------------------- generate-video route

MAX_POLLING_ATTEMPTS == 60

TimedOutText == "Video generation timed out after 300 seconds."

\* Errors generateVideos and getVideosOperation are modelled to throw.
OperationErrors == {"RESOURCE_EXHAUSTED", "service unavailable"}

LimitReached_OneMore(attempts) == attempts > MAX_POLLING_ATTEMPTS

\* attempts >= MAX_POLLING_ATTEMPTS
LimitReached(attempts) == attempts >= MAX_POLLING_ATTEMPTS

\* The operation object after generateVideos or getVideosOperation returned
\* it: the loop condition !operation.done is evaluated on it at once.
Returned(done, attempts) ==
    [state |-> IF done THEN "done" ELSE "polling", attempts |-> attempts,
     error |-> ""]

Thrown(text, attempts) == [state |-> "failed", attempts |-> attempts, error |-> text]

VideoApiOp(name, arg) ==
    /\ lastOp' = [op |-> name, arg |-> arg, h |-> NoHandle, error |-> NoError]
    /\ out' = << >>
    /\ disconnects' = << >>
    /\ UNCHANGED <<regVars, supVars, genVars, feedVars, pageVars, calls, response>>

\* generateVideoFromImage up to the loop: the operation is submitted.  The
\* model serves one request at a time.
SubmitVideo(done) ==
    /\ operation.state \in {"none", "done", "failed"}
    /\ operation' = Returned(done, 0)
    /\ VideoApiOp("submit", done)

SubmitThrows(text) ==
    /\ operation.state \in {"none", "done", "failed"}
    /\ operation' = Thrown(text, 0)
    /\ VideoApiOp("submitThrew", text)

\* One iteration of the polling loop that reaches getVideosOperation (after
\* the 5 s wait), which returns the operation.
PollVideo(done) ==
    /\ operation.state = "polling"
    /\ ~LimitReached(operation.attempts)
    /\ operation' = Returned(done, operation.attempts + 1)
    /\ VideoApiOp("poll", done)

\* The same iteration, getVideosOperation throws.
PollThrows(text) ==
    /\ operation.state = "polling"
    /\ ~LimitReached(operation.attempts)
    /\ operation' = Thrown(text, operation.attempts + 1)
    /\ VideoApiOp("pollThrew", text)

\* The iteration that finds the attempts used up and throws.
PollTimesOut ==
    /\ operation.state = "polling"
    /\ LimitReached(operation.attempts)
    /\ operation' = Thrown(TimedOutText, operation.attempts)
    /\ VideoApiOp("timedOut", FALSE)

\* ---------------------------------------------- video generation (page)

COOLDOWN == 60

NoVideo == "null"
\* Texts dropped on the video panel: none, a data URL, and a remote url.
DroppedTexts == {"", "data:image/png;base64,AAAA", "https://cdn/shot.png"}

\* HTTP statuses of the reply of /api/generate-video (0: fetch rejects).
ReplyStatuses == {200, 429, 408, 500, 0}

GenInit ==
    /\ videoCooldown = 0
    /\ cooldownTimer = 0
    /\ isVideoLoading = FALSE
    /\ videoUrl = NoVideo
    /\ videoError = NoVideo
    /\ videoFetch = FALSE

\* VideoGenerator.handleDrop calls onGenerate.
DropPasses(imageUrl, loading, cooldown) == imageUrl # "" /\ ~loading /\ cooldown = 0

\* handleGenerateVideo goes past its first statement.
GeneratePasses(imageUrl, cooldown) == ~(imageUrl = "" \/ cooldown > 0)

\* imageUrl.split(',') gives a header with a MIME type and a payload.
IsDataUrl(imageUrl) == imageUrl = "data:image/png;base64,AAAA"

\* The effect on videoCooldown: it clears the pending timer when the value
\* changed and sets one, capturing the value, when the value is above 0.
CooldownEffect ==
    cooldownTimer' = IF videoCooldown' # videoCooldown THEN videoCooldown'
                     ELSE cooldownTimer

CooldownAfter_AnyFailure(status, cooldown) == IF status # 200 THEN COOLDOWN ELSE cooldown

\* setVideoCooldown(60) in the catch block, for the QUOTA_EXCEEDED error that
\* stands for status 429.
CooldownAfter(status, cooldown) == IF status = 429 THEN COOLDOWN ELSE cooldown

ErrorAfter(status) ==
    CASE status = 200 -> NoVideo
      [] status = 429 -> "quota"
      [] OTHER -> "failed"

GenOp(name, arg, status) ==
    /\ lastOp' = [op |-> name, arg |-> arg, h |-> NoHandle, status |-> status]
    /\ out' = << >>
    /\ disconnects' = << >>
    /\ UNCHANGED <<regVars, supVars, apiVars, feedVars, pageVars>>

\* A text is dropped on the video panel: handleDrop, and handleGenerateVideo
\* up to its first await.
handleDrop(imageUrl) ==
    /\ IF DropPasses(imageUrl, isVideoLoading, videoCooldown)
          /\ GeneratePasses(imageUrl, videoCooldown)
       THEN /\ videoUrl' = NoVideo
            /\ videoError' = IF IsDataUrl(imageUrl) THEN NoVideo ELSE "invalid"
            /\ isVideoLoading' = IsDataUrl(imageUrl)
            /\ videoFetch' = IsDataUrl(imageUrl)
            /\ UNCHANGED videoCooldown
       ELSE UNCHANGED <<videoUrl, videoError, isVideoLoading, videoFetch, videoCooldown>>
    /\ CooldownEffect
    /\ GenOp("handleDrop", imageUrl, 0)

\* The fetch settles: handleGenerateVideo from its first await to its end.
VideoReply(status) ==
    /\ videoFetch
    /\ videoFetch' = FALSE
    /\ videoUrl' = IF status = 200 THEN "blob" ELSE videoUrl
    /\ videoError' = ErrorAfter(status)
    /\ videoCooldown' = CooldownAfter(status, videoCooldown)
    /\ isVideoLoading' = FALSE
    /\ CooldownEffect
    /\ GenOp("VideoReply", "", status)

\* The cooldown timer fires after one second.
CooldownTick ==
    /\ cooldownTimer > 0
    /\ videoCooldown' = cooldownTimer - 1
    /\ CooldownEffect
    /\ UNCHANGED <<videoUrl, videoError, isVideoLoading, videoFetch>>
    /\ GenOp("CooldownTick", "", 0)

\* --------------------------------------------------------- car-image feed

FeedInit ==
    /\ carImages = << >>
    /\ passes = << >>

\* screenshot.url.startsWith('http://') || startsWith('https://')
IsRemote(url) == url = [t |-> "str", s |-> "https://cdn/shot.png"]

\* Urls of the model's screenshots are remote or neither remote nor data:
\* urls; the loop skips the latter without waiting.
ToFetch(shots) ==
    LET F[i \in 0..Len(shots)] ==
          IF i = 0 THEN << >>
          ELSE IF IsRemote(shots[i].url) THEN Append(F[i - 1], shots[i].url)
               ELSE F[i - 1]
    IN F[Len(shots)]

\* setCarImages(convertedCarImages) at the end of a pass: ps are the passes
\* under way, i the one that ends, acc its result.  The result is stored
\* whether or not a later pass has started or ended.
FeedAfterPass(ps, i, acc, feed) == acc

\* The effect on [screenshots, mode]: in photo mode it calls
\* convertScreenshots, which runs to its first fetch, or to its end when it
\* has nothing to fetch.
ConvertEffect ==
    IF (screenshots' # screenshots \/ mode' # mode) /\ mode' = "photo"
    THEN IF ToFetch(screenshots') = << >>
         THEN carImages' = << >> /\ UNCHANGED passes
         ELSE /\ Len(passes) < MaxPasses
              /\ passes' = Append(passes, [todo |-> ToFetch(screenshots'), acc |-> << >>])
              /\ UNCHANGED carImages
    ELSE UNCHANGED feedVars

\* ------------------------------------------------ registry specification

RegInit ==
    /\ globalPixelStreaming = NoHandle
    /\ isWebSocketConnected = FALSE
    /\ isVideoStreamActive = FALSE
    /\ psListeners = {}

NoJob == [t |-> "null"]
\* Two of the four backgroundOptions: the first, and the one whose day and
\* night images differ.
Backgrounds == {"Studio_White", "Nature_Forest"}
NoId == "null"

\* useState initial values of ConfiguratorContent; webSocketUrl is the value
\* the mount effect reads from the environment.
PageInit ==
    /\ carId = DefaultCar
    /\ isReady = FALSE
    /\ isCarLoaded = FALSE
    /\ webSocketUrl \in {NoUrl, StreamUrl}
    /\ selectedColorId = NoId
    /\ selectedWheelId = NoId
    /\ selectedBackground = "Studio_White"
    /\ isDayMode = TRUE
    /\ mode = "photo"
    /\ screenshots = << >>
    /\ sequences = << >>
    /\ isLoadingSequences = FALSE
    /\ selectedSequences = << >>
    /\ isPlaying = FALSE
    /\ renderJob = NoJob
    /\ timers = << >>
    /\ inflight = {}
    /\ loadCount = 0
    /\ loadedBy = NoId

ObsInit ==
    /\ out = << >>
    /\ disconnects = << >>
    /\ lastOp = Op("init", "", NoHandle)

\* registerPS called by any client of the module.
ApiRegister ==
    \E ps \in HandleOrNull, threw \in BOOLEAN :
        /\ SetRegistry(registerPS(Registry, ps, threw))
        /\ disconnects' = DisconnectPrevious(globalPixelStreaming, ps, threw)
        /\ out' = << >>
        /\ lastOp' = Op("registerPS", ps, globalPixelStreaming)
        /\ UNCHANGED <<supVars, apiVars, genVars, feedVars, pageVars>>

ApiSignal ==
    \E h \in Handles, sig \in Signals :
        /\ RegistrySignal(h, sig)
        /\ out' = << >>
        /\ disconnects' = << >>
        /\ lastOp' = Op("signal", sig, h)
        /\ UNCHANGED <<supVars, apiVars, genVars, feedVars, pageVars>>

InitRegistry ==
    /\ RegInit /\ PageInit /\ ObsInit
    /\ streaming = NoHandle
    /\ cleanupDone = FALSE
    /\ supTimers = << >>
    /\ ApiInit /\ GenInit /\ FeedInit
    /\ infoListenerOn = NoHandle
    /\ lsnReady = FALSE
NextRegistry == ApiRegister \/ ApiSignal
SpecRegistry == InitRegistry /\ [][NextRegistry]_vars


\* ------------------------------------------------------- inbound events

\* An 'Info' message is a string; json says what JSON.parse makes of it:
\* "invalid" (it throws), "null" (the value null, whose .ns throws) or
\* "object" (an envelope with the fields below).
Msg(ns, type, action, status, data) ==
    [json |-> "object", ns |-> ns, type |-> type, action |-> action,
     status |-> status, isDay |-> Undef, data |-> data, sequences |-> Undef]

NotJsonMsg == [Msg("", "", "", "", Undef) EXCEPT !.json = "invalid"]
NullMsg == [Msg("", "", "", "", Undef) EXCEPT !.json = "null"]

\* Texts sent as string payloads, and JSON.parse of each.
UrlText == "https://cdn/shot.png"
JobText == "{\"jobId\":\"j1\",\"sequenceId\":\"s1\",\"progress\":50}"
SeqText == "{\"sequences\":[{\"SequenceId\":\"s1\",\"DisplayName\":\"A\",\"Category\":\"Interior\",\"Duration\":5}]}"

JobPayload == Obj([jobId |-> Str("j1"), sequenceId |-> Str("s1"), progress |-> Num(50)])
SeqPayload ==
    Obj([sequences |->
          Arr(<< Obj([SequenceId |-> Str("s1"), DisplayName |-> Str("A"),
                      Category |-> Str("Interior"), Duration |-> Num(5)]) >>)])

ParseJSON(text) ==
    CASE text = JobText -> [ok |-> TRUE, v |-> JobPayload]
      [] text = SeqText -> [ok |-> TRUE, v |-> SeqPayload]
      [] OTHER -> [ok |-> FALSE, v |-> Undef]

IsEv(e, type, action) == e.type = type /\ e.action = action

Accepts_AnyNamespace(msg) == msg.json = "object"

\* The listener hands the parsed envelope to handleUEResponse only when its
\* ns is the configurator namespace; a message that does not parse, or parses
\* to null, ends in the catch block.
Accepts(msg) == msg.json = "object" /\ msg.ns = Namespace

\* Car/LoadById.
CarLoadedAfter(e, loaded) ==
    IF IsEv(e, "Car", "LoadById") /\ e.status = "OK" THEN TRUE ELSE loaded

HandoffTimers_AnyStatus(e, url, ps, car) ==
    IF IsEv(e, "Car", "LoadById") /\ url # NoUrl /\ ps # NoHandle
    THEN << [kind |-> "handoff", ps |-> ps, url |-> url, carId |-> car] >>
    ELSE << >>

\* The SetCloudflareURL timer a Car/LoadById event schedules.
HandoffTimers(e, url, ps, car) ==
    IF IsEv(e, "Car", "LoadById") /\ e.status = "OK" /\ url # NoUrl /\ ps # NoHandle
    THEN << [kind |-> "handoff", ps |-> ps, url |-> url, carId |-> car] >>
    ELSE << >>

\* Environment/ChangeBackground in video mode: the cascade.
IsLevelChange(e, m) ==
    IsEv(e, "Environment", "ChangeBackground") /\ e.status = "OK" /\ m = "video"

ReseqTimers(e, m, ready, car) ==
    IF IsLevelChange(e, m)
    THEN << [kind |-> "reseq", ready |-> ready, carId |-> car] >>
    ELSE << >>

\* Environment/ChangeDayNight.
DayModeAfter(e, day) ==
    IF IsEv(e, "Environment", "ChangeDayNight") /\ e.status = "OK" /\ e.isDay.t # "undef"
    THEN Truthy(e.isDay)
    ELSE day

\* System/TakeScreenshot and System/TakeScreenshotNoBackground.
ScreenshotUrl(data) ==
    IF data.t = "str" THEN data ELSE Or(Get(data, "url"), Str(""))

ShotPrefix(e) ==
    IF e.action = "TakeScreenshot" THEN "screenshot-" ELSE "screenshot-nobg-"

ScreenshotsAfter(e, shots, now) ==
    IF /\ e.type = "System"
       /\ e.action \in {"TakeScreenshot", "TakeScreenshotNoBackground"}
       /\ e.status = "OK"
       /\ Truthy(e.data)
       /\ Truthy(ScreenshotUrl(e.data))
    THEN << [id |-> <<ShotPrefix(e), now>>, url |-> ScreenshotUrl(e.data),
             timestamp |-> now] >> \o shots
    ELSE shots

\* Sequence/GetSequences: the payload and the probe order.
SeqParsedData(e) ==
    IF e.data.t = "str" THEN ParseJSON(e.data.s).v ELSE e.data

SeqParseFails(e) == e.data.t = "str" /\ ~ParseJSON(e.data.s).ok

IsArr(j) == j.t = "arr"

RawSequences(e) ==
    LET pd == SeqParsedData(e) IN
    CASE IsArr(Get(pd, "sequences")) -> Get(pd, "sequences").a
      [] IsArr(e.sequences) -> e.sequences.a
      [] IsArr(pd) -> pd.a
      [] IsArr(Get(e.data, "sequences")) -> Get(e.data, "sequences").a
      [] pd.t = "obj" /\ Truthy(Get(pd, "sequenceId")) -> << pd >>
      [] OTHER -> << >>

NormalizeSequence_IdBeforeSequenceId(seq) ==
    [id |-> Or(Get(seq, "id"),
               Or(Get(seq, "sequenceId"), Or(Get(seq, "SequenceId"), Str("unknown")))),
     name |-> Or(Get(seq, "displayName"),
                 Or(Get(seq, "name"),
                    Or(Get(seq, "DisplayName"),
                       Or(Get(seq, "sequenceId"), Str("Unnamed Sequence"))))),
     category |-> Or(Get(seq, "category"), Or(Get(seq, "Category"), Str("Exterior"))),
     duration |-> Or(Get(seq, "duration"), Or(Get(seq, "Duration"), Num(10))),
     thumbnail |-> Or(Get(seq, "thumbnailPath"),
                      Or(Get(seq, "ThumbnailPath"), Get(seq, "thumbnail")))]

\* The map callback of the GetSequences branch.
NormalizeSequence(seq) ==
    [id |-> Or(Get(seq, "sequenceId"),
               Or(Get(seq, "id"), Or(Get(seq, "SequenceId"), Str("unknown")))),
     name |-> Or(Get(seq, "displayName"),
                 Or(Get(seq, "name"),
                    Or(Get(seq, "DisplayName"),
                       Or(Get(seq, "sequenceId"), Str("Unnamed Sequence"))))),
     category |-> Or(Get(seq, "category"), Or(Get(seq, "Category"), Str("Exterior"))),
     duration |-> Or(Get(seq, "duration"), Or(Get(seq, "Duration"), Num(10))),
     thumbnail |-> Or(Get(seq, "thumbnailPath"),
                      Or(Get(seq, "ThumbnailPath"), Get(seq, "thumbnail")))]

\* seq.sequenceId on null or undefined throws; the outer catch sets [].
MapThrows(raw) == \E i \in 1..Len(raw) : raw[i].t \in {"null", "undef"}

LoadedSequences(e) ==
    IF SeqParseFails(e) THEN << >>
    ELSE LET raw == RawSequences(e) IN
         IF MapThrows(raw) THEN << >>
         ELSE [i \in 1..Len(raw) |-> NormalizeSequence(raw[i])]

SequencesAfter_IgnoresStatus(e, m, seqs) ==
    CASE IsEv(e, "Sequence", "GetSequences") -> LoadedSequences(e)
      [] IsLevelChange(e, m) -> << >>
      [] OTHER -> seqs

SequencesAfter(e, m, seqs) ==
    CASE IsEv(e, "Sequence", "GetSequences") ->
            IF e.status = "OK" THEN LoadedSequences(e) ELSE << >>
      [] IsLevelChange(e, m) -> << >>
      [] OTHER -> seqs

LoadingAfter(e, loading) ==
    IF IsEv(e, "Sequence", "GetSequences") THEN FALSE ELSE loading

QueueAfter(e, m, queue) == IF IsLevelChange(e, m) THEN << >> ELSE queue

\* Sequence/PlaySequence, StopSequence, SequenceFinished.
PlayingAfter_FinishedNeedsOk(e, m, playing) ==
    CASE IsEv(e, "Sequence", "PlaySequence") -> e.status = "OK"
      [] IsEv(e, "Sequence", "StopSequence") /\ e.status = "OK" -> FALSE
      [] IsEv(e, "Sequence", "SequenceFinished") /\ e.status = "OK" -> FALSE
      [] IsLevelChange(e, m) -> FALSE
      [] OTHER -> playing

PlayingAfter(e, m, playing) ==
    CASE IsEv(e, "Sequence", "PlaySequence") -> e.status = "OK"
      [] IsEv(e, "Sequence", "StopSequence") /\ e.status = "OK" -> FALSE
      [] IsEv(e, "Sequence", "SequenceFinished") -> FALSE
      [] IsLevelChange(e, m) -> FALSE
      [] OTHER -> playing

\* Render/...: the tracked job.
Job(id, sequenceId, status, progress, downloadUrl, errorMessage) ==
    [t |-> "job", id |-> id, sequenceId |-> sequenceId, status |-> status,
     progress |-> progress, downloadUrl |-> downloadUrl,
     errorMessage |-> errorMessage]

\* renderJob?.f
JobGet(job, f) == IF job.t = "job" THEN job[f] ELSE Undef

IsRendering_AnyJob(job) == job.t = "job"

\* renderJob?.status === 'rendering'
IsRendering(job) == job.t = "job" /\ job.status = "rendering"

\* `render-${Date.now()}`
RenderId(now) == [t |-> "str", s |-> "render-", at |-> now]

\* The render handlers keep the raw string when it does not parse.
RenderParsedData(e) ==
    IF e.data.t = "str" /\ ParseJSON(e.data.s).ok THEN ParseJSON(e.data.s).v
    ELSE e.data

FinalDownloadUrl(pd) ==
    LET d == Get(pd, "downloadUrl") IN
    CASE d.t = "str" -> d
      [] d.t \in {"obj", "arr"} -> Get(d, "url")
      [] OTHER -> Undef

\* Whether the handler of a Render event calls setRenderJob.
RenderSets(e, job) ==
    LET pd == RenderParsedData(e) IN
    CASE IsEv(e, "Render", "RenderStarted") -> TRUE
      [] IsEv(e, "Render", "RenderProgress") -> Truthy(pd)
      [] IsEv(e, "Render", "RenderComplete") -> Truthy(pd)
      [] e.type = "Render" /\ e.action \in {"RenderFailed", "RenderCancelled"} ->
            job # NoJob \/ Truthy(Or(Get(pd, "jobId"), JobGet(job, "id")))
      [] OTHER -> FALSE

\* parsedData?.jobId || renderJob?.id || `render-${Date.now()}`
InheritedId(pd, job, now) ==
    Or(Get(pd, "jobId"), Or(JobGet(job, "id"), RenderId(now)))

InheritedSequenceId_Unknown(pd, job) == Or(Get(pd, "sequenceId"), Str("unknown"))

\* parsedData?.sequenceId || renderJob?.sequenceId || 'unknown'
InheritedSequenceId(pd, job) ==
    Or(Get(pd, "sequenceId"), Or(JobGet(job, "sequenceId"), Str("unknown")))

\* The job it sets.
RenderNewJob(e, job, now) ==
    LET pd == RenderParsedData(e)
        failedId == Or(Get(pd, "jobId"), JobGet(job, "id"))
        FailedJob(message) ==
            Job(Or(failedId, Or(JobGet(job, "id"), RenderId(now))),
                Or(JobGet(job, "sequenceId"), Str("unknown")),
                "failed",
                Or(JobGet(job, "progress"), Num(0)),
                Undef, message)
    IN
    CASE IsEv(e, "Render", "RenderStarted") ->
            Job(Or(Get(pd, "jobId"), RenderId(now)),
                Or(Get(pd, "sequenceId"), Str("unknown")),
                "rendering", Num(0), Undef, Undef)
      [] IsEv(e, "Render", "RenderProgress") ->
            Job(InheritedId(pd, job, now), InheritedSequenceId(pd, job),
                "rendering", Or(Get(pd, "progress"), Num(0)), Undef, Undef)
      [] IsEv(e, "Render", "RenderComplete") ->
            Job(InheritedId(pd, job, now), InheritedSequenceId(pd, job),
                "complete", Num(100), FinalDownloadUrl(pd), Undef)
      [] IsEv(e, "Render", "RenderFailed") ->
            FailedJob(Or(Get(pd, "errorMessage"), Str("Unknown error")))
      [] OTHER ->
            FailedJob(Str("Render cancelled by user"))

RenderJobAfter(e, job, now) ==
    IF RenderSets(e, job) THEN RenderNewJob(e, job, now) ELSE job

\* The effect that (re)installs the 'Info' listener runs when carId,
\* webSocketUrl, renderJob or mode changed: the listener then sits on the
\* handle getPS() returns at that moment (none when it returns null), and its
\* loadSequencesForCurrentLevel is the one of that render.
ListenerEffect(depsChanged) ==
    /\ infoListenerOn' = IF depsChanged THEN globalPixelStreaming' ELSE infoListenerOn
    /\ lsnReady' = IF depsChanged THEN isReady' ELSE lsnReady

\* carId, webSocketUrl and mode are compared by value, renderJob by identity:
\* every setRenderJob installs a new object.
DepsChanged(jobSet) ==
    \/ jobSet
    \/ <<carId, webSocketUrl, mode>>' # <<carId, webSocketUrl, mode>>

\* The listener's own statements that throw: JSON.parse of a text that is
\* not JSON, and event.ns of the value null.
ListenerRaises(msg) == msg.json \in {"invalid", "null"}

\* handleUEResponse statements that throw: the map over a sequence array
\* with a null or undefined element (caught by the branch's own try).
HandlerRaises(msg) ==
    /\ Accepts(msg)
    /\ IsEv(msg, "Sequence", "GetSequences") /\ msg.status = "OK"
    /\ ~SeqParseFails(msg)
    /\ MapThrows(RawSequences(msg))

ListenerCatches_NoTry == FALSE

\* The listener's body is one try block whose catch only logs.
ListenerCatches == TRUE

\* Whether an exception leaves the listener.
Escapes(msg) == ListenerRaises(msg) /\ ~ListenerCatches

\* What the listener logs of a message: the namespace always, the rest only for
\* an envelope it hands to handleUEResponse.
InfoOp(msg) ==
    IF Accepts(msg)
    THEN [op |-> "Info", arg |-> msg.ns, h |-> msg.json, type |-> msg.type,
          action |-> msg.action, status |-> msg.status, msg |-> msg,
          escaped |-> Escapes(msg)]
    ELSE [op |-> "Info", arg |-> msg.ns, h |-> msg.json, type |-> "",
          action |-> "", status |-> "", msg |-> NullMsg,
          escaped |-> Escapes(msg)]

\* One message on the 'Info' channel, handled by the page's listener.
\* `now` is Date.now(); `answers` is the car whose LoadById the engine is
\* answering (NoId for a message nothing asked for).
DeliverInfo(msg, now, answers) ==
    LET acc == Accepts(msg)
        newTimers == IF acc
                     THEN HandoffTimers(msg, webSocketUrl, getPS, carId)
                            \o ReseqTimers(msg, mode, lsnReady, carId)
                     ELSE << >>
        shots == IF acc THEN ScreenshotsAfter(msg, screenshots, now) ELSE screenshots
    IN
    /\ infoListenerOn # NoHandle
    /\ Len(timers) + Len(newTimers) <= MaxTimers
    /\ Len(shots) <= MaxShots
    /\ isCarLoaded' = IF acc THEN CarLoadedAfter(msg, isCarLoaded) ELSE isCarLoaded
    /\ isDayMode' = IF acc THEN DayModeAfter(msg, isDayMode) ELSE isDayMode
    /\ screenshots' = shots
    /\ sequences' = IF acc THEN SequencesAfter(msg, mode, sequences) ELSE sequences
    /\ isLoadingSequences' =
         IF acc THEN LoadingAfter(msg, isLoadingSequences) ELSE isLoadingSequences
    /\ selectedSequences' =
         IF acc THEN QueueAfter(msg, mode, selectedSequences) ELSE selectedSequences
    /\ isPlaying' = IF acc THEN PlayingAfter(msg, mode, isPlaying) ELSE isPlaying
    /\ renderJob' = IF acc THEN RenderJobAfter(msg, renderJob, now) ELSE renderJob
    /\ timers' = timers \o newTimers
    /\ loadedBy' = IF acc /\ IsEv(msg, "Car", "LoadById") /\ msg.status = "OK"
                   THEN answers ELSE loadedBy
    /\ out' = << >>
    /\ disconnects' = << >>
    /\ lastOp' = InfoOp(msg)
    /\ UNCHANGED <<regVars, supVars, apiVars, genVars, carId, isReady, webSocketUrl, mode, selectedColorId,
                   selectedWheelId, selectedBackground, loadCount>>
    /\ ListenerEffect(DepsChanged(acc /\ RenderSets(msg, renderJob)))
    /\ ConvertEffect


\* A message nothing in the model asked for.
InfoFrom(msgs) ==
    \E msg \in msgs, now \in Ticks :
        /\ DeliverInfo(msg, now, NoId)
        /\ UNCHANGED inflight

\* --------------------------------------------------- page operations

Cmd(ps, type, action, p) ==
    [ps |-> ps, ns |-> Namespace, type |-> type, action |-> action, p |-> p]

Min(a, b) == IF a < b THEN a ELSE b

RemoveAt(q, i) == [k \in 1..(Len(q) - 1) |-> IF k < i THEN q[k] ELSE q[k + 1]]

\* checkConnection: the Car/LoadById it emits, given isPSReady(), the
\* isCarLoaded of its closure and getPS().
LoadCommands(ready, loaded, ps, car) ==
    IF ready /\ ~loaded /\ ps # NoHandle
    THEN << Cmd(ps, "Car", "LoadById", [value |-> car]) >>
    ELSE << >>

\* loadSequencesForCurrentLevel with the isReady and carId of its closure:
\* the commands it emits and, when it runs, the loading flag it leaves.
DiscoveryRuns(ready) == ready

DiscoveryCommands(ready, ps, car) ==
    IF DiscoveryRuns(ready) /\ ps # NoHandle
    THEN << Cmd(ps, "Sequence", "GetSequences", [carId |-> car]) >>
    ELSE << >>

\* The effect on [mode, isReady]: discovery when the page is, after the
\* change, in video mode, ready and without sequences.
ModeEffectRuns(newMode, newReady, seqs) ==
    /\ <<newMode, newReady>> # <<mode, isReady>>
    /\ newMode = "video" /\ newReady /\ seqs = << >>

\* The commands whose answer the model waits for, besides Car/LoadById (for
\* which inflight holds the car).
TrackedRequests == {"ChangeBackground", "GetSequences"}

Requests(cmds) == {cmds[i].action : i \in 1..Len(cmds)} \cap TrackedRequests

\* The 1-second readiness poll.
Poll ==
    LET ready == isPSReady
        load == LoadCommands(ready, isCarLoaded, getPS, carId)
        fx == ModeEffectRuns(mode, ready, sequences)
    IN
    /\ isReady' = ready
    /\ out' = load \o (IF fx THEN DiscoveryCommands(ready, getPS, carId) ELSE << >>)
    /\ inflight' = (IF load # << >> THEN inflight \cup {carId} ELSE inflight)
                       \cup Requests(out')
    /\ loadCount' = IF load # << >> THEN Min(loadCount + 1, MaxLoadCount) ELSE loadCount
    /\ isLoadingSequences' = IF fx THEN getPS # NoHandle ELSE isLoadingSequences
    /\ disconnects' = << >>
    /\ lastOp' = Op("poll", "", NoHandle)
    /\ UNCHANGED <<regVars, supVars, apiVars, genVars, feedVars, carId, isCarLoaded, webSocketUrl, cfgVars, mode,
                   screenshots, sequences, selectedSequences, isPlaying, renderJob,
                   timers, loadedBy>>
    /\ ListenerEffect(DepsChanged(FALSE))

\* The effect on [carId]: setIsCarLoaded(false).
CarLoadedAfterChange(loaded) == FALSE

\* The carId query parameter changes.  The checkConnection effect runs again
\* (once for the new carId with the isCarLoaded of that render, and once more
\* if setIsCarLoaded(false) changed the flag), which calls checkConnection
\* with isCarLoaded false exactly once.
ChangeCar(c) ==
    LET ready == isPSReady
        loaded == CarLoadedAfterChange(isCarLoaded)
        load == LoadCommands(ready, loaded, getPS, c)
        fx == ModeEffectRuns(mode, ready, sequences)
    IN
    /\ c # carId
    /\ carId' = c
    /\ isCarLoaded' = loaded
    /\ isReady' = ready
    /\ out' = load \o (IF fx THEN DiscoveryCommands(ready, getPS, c) ELSE << >>)
    /\ inflight' = (IF load # << >> THEN inflight \cup {c} ELSE inflight)
                       \cup Requests(out')
    /\ loadCount' = IF load # << >> THEN 1 ELSE 0
    /\ loadedBy' = IF loaded THEN loadedBy ELSE NoId
    /\ isLoadingSequences' = IF fx THEN getPS # NoHandle ELSE isLoadingSequences
    /\ disconnects' = << >>
    /\ lastOp' = Op("changeCar", c, NoHandle)
    /\ UNCHANGED <<regVars, supVars, apiVars, genVars, feedVars, webSocketUrl, cfgVars, mode, screenshots, sequences,
                   selectedSequences, isPlaying, renderJob, timers>>
    /\ ListenerEffect(DepsChanged(FALSE))

\* ----------------------------------------------- Reconnection Supervisor

Sup == [streaming |-> streaming, cleanupDone |-> cleanupDone, timers |-> supTimers]

SetSup(r) ==
    /\ streaming' = r.streaming
    /\ cleanupDone' = r.cleanupDone
    /\ supTimers' = r.timers

SupIs(r) ==
    /\ streaming = r.streaming
    /\ cleanupDone = r.cleanupDone
    /\ supTimers = r.timers

NoTimers == << >>

ClearTimeout_Noop(ts) == ts

\* if (reconnectTimeoutId) clearTimeout(reconnectTimeoutId): the callback the
\* id refers to is dropped if it is still pending.
ClearTimeout(ts) ==
    LET keep == {i \in 1..Len(ts) : ~ts[i].current}
        Pick(k) == CHOOSE i \in keep : Cardinality({j \in keep : j <= i}) = k
    IN [k \in 1..Cardinality(keep) |-> ts[Pick(k)]]

\* reconnectTimeoutId = setTimeout(callback, delay)
SetTimeout(ts, kind, delay) ==
    [i \in 1..Len(ts) |-> [ts[i] EXCEPT !.current = FALSE]]
        \o << [kind |-> kind, delay |-> delay, current |-> TRUE] >>

SignalDelay == 2000
RetryDelay == 5000
InitRetryDelay == 3000

attemptReconnect_AfterCleanup(sup, delay) ==
    [sup EXCEPT !.timers = SetTimeout(ClearTimeout(sup.timers), "reconnect", delay)]

\* attemptReconnect(delay)
attemptReconnect(sup, delay) ==
    IF sup.cleanupDone THEN sup
    ELSE [sup EXCEPT !.timers = SetTimeout(ClearTimeout(sup.timers), "reconnect", delay)]

\* The wrapper's listeners on its handle: a lost connection schedules a
\* reconnect attempt.
SupAfterSignal(sup, sig) ==
    IF sig \in {"webRtcDisconnected", "dataChannelError"}
    THEN attemptReconnect(sup, SignalDelay)
    ELSE sup

\* The delay of the attempt that follows an attempt that threw.
NextDelay(delay) == RetryDelay

\* The callback of a reconnect timer, whose reconnect() throws or not.
SupAfterReconnect(sup, i, threw) ==
    LET fired == [sup EXCEPT !.timers = RemoveAt(sup.timers, i)] IN
    IF sup.streaming # NoHandle /\ ~sup.cleanupDone /\ threw
    THEN attemptReconnect(fired, NextDelay(sup.timers[i].delay))
    ELSE fired

\* Whether that callback calls streaming.reconnect().
CallsReconnect(sup) == sup.streaming # NoHandle /\ ~sup.cleanupDone

\* The catch block of initializePixelStreaming.
SupAfterInitThrew(sup) ==
    IF sup.cleanupDone THEN sup
    ELSE [sup EXCEPT !.timers = SetTimeout(sup.timers, "init", InitRetryDelay)]

\* The supervisor of a viewer whose first initializePixelStreaming built and
\* registered the handle, and of one whose first attempt threw.
SupMounted == [streaming |-> Streaming, cleanupDone |-> FALSE, timers |-> NoTimers]
SupRetrying ==
    [streaming |-> NoHandle, cleanupDone |-> FALSE,
     timers |-> SetTimeout(NoTimers, "init", InitRetryDelay)]

InitPending == \E i \in 1..Len(supTimers) : supTimers[i].kind = "init"

\* initializePixelStreaming, run from the retry timer after a first attempt
\* that threw: registerPS(null), then registerPS(streaming).
WrapperInit ==
    LET r1 == registerPS(Registry, NoHandle, FALSE)
        r2 == registerPS(r1, Streaming, FALSE)
        i == CHOOSE k \in 1..Len(supTimers) : supTimers[k].kind = "init"
    IN
    /\ globalPixelStreaming = NoHandle
    /\ InitPending /\ ~cleanupDone
    /\ SetRegistry(r2)
    /\ SetSup([Sup EXCEPT !.streaming = Streaming, !.timers = RemoveAt(supTimers, i)])
    /\ disconnects' = DisconnectPrevious(globalPixelStreaming, NoHandle, FALSE)
                        \o DisconnectPrevious(r1.ps, Streaming, FALSE)
    /\ out' = << >>
    /\ lastOp' = Op("registerPS", Streaming, r1.ps)
    /\ UNCHANGED <<apiVars, genVars, feedVars, pageVars>>

\* The retry timer runs initializePixelStreaming and the constructor throws
\* again, after registerPS(null); after teardown the callback does nothing.
WrapperInitThrows ==
    LET i == CHOOSE k \in 1..Len(supTimers) : supTimers[k].kind = "init"
        fired == [Sup EXCEPT !.timers = RemoveAt(supTimers, i)]
    IN
    /\ InitPending
    /\ SetSup(SupAfterInitThrew(fired))
    /\ IF cleanupDone
       THEN UNCHANGED regVars /\ disconnects' = << >>
       ELSE /\ SetRegistry(registerPS(Registry, NoHandle, FALSE))
            /\ disconnects' = DisconnectPrevious(globalPixelStreaming, NoHandle, FALSE)
    /\ out' = << >>
    /\ lastOp' = [op |-> "initRetry", arg |-> "threw", h |-> NoHandle,
                  ran |-> ~cleanupDone]
    /\ UNCHANGED <<apiVars, genVars, feedVars, pageVars>>

ConnSignals == {"webRtcConnected", "webRtcDisconnected", "dataChannelError"}

\* The viewer's handle fires a connectivity signal: the registry's listeners
\* and the wrapper's run.
PageSignal(sig) ==
    /\ Streaming \in psListeners
    /\ Len(SupAfterSignal(Sup, sig).timers) <= MaxSupTimers
    /\ RegistrySignal(Streaming, sig)
    /\ SetSup(SupAfterSignal(Sup, sig))
    /\ out' = << >>
    /\ disconnects' = << >>
    /\ lastOp' = [op |-> "signal", arg |-> sig, h |-> Streaming,
                  pending |-> Len(supTimers)]
    /\ UNCHANGED <<apiVars, genVars, feedVars, pageVars>>

\* A reconnect timer fires.
FireReconnect(i, threw) ==
    /\ i \in 1..Len(supTimers)
    /\ supTimers[i].kind = "reconnect"
    /\ threw => CallsReconnect(Sup)
    /\ Len(SupAfterReconnect(Sup, i, threw).timers) <= MaxSupTimers
    /\ SetSup(SupAfterReconnect(Sup, i, threw))
    /\ out' = << >>
    /\ disconnects' = << >>
    /\ lastOp' = [op |-> "reconnect", arg |-> supTimers[i].delay,
                  h |-> IF CallsReconnect(Sup) THEN streaming ELSE NoHandle,
                  threw |-> threw]
    /\ UNCHANGED <<regVars, apiVars, genVars, feedVars, pageVars>>

\* The cleanup of the mount effect; each of its two disconnect() calls may
\* throw.
Teardown ==
    \E threw1, threw2 \in BOOLEAN :
        /\ ~cleanupDone
        /\ SetSup([Sup EXCEPT !.cleanupDone = TRUE, !.timers = ClearTimeout(supTimers)])
        /\ SetRegistry(registerPS(Registry, NoHandle, threw2))
        /\ disconnects' =
             (IF streaming # NoHandle
              THEN << [target |-> streaming, current |-> globalPixelStreaming,
                       threw |-> threw1] >>
              ELSE << >>)
             \o DisconnectPrevious(globalPixelStreaming, NoHandle, threw2)
        /\ out' = << >>
        /\ lastOp' = [op |-> "teardown", arg |-> "", h |-> streaming,
                      pending |-> Len(supTimers)]
        /\ UNCHANGED <<apiVars, genVars, feedVars, pageVars>>

\* A pending setTimeout callback runs.
FireHandoff(i) ==
    /\ i \in 1..Len(timers)
    /\ timers[i].kind = "handoff"
    /\ timers' = RemoveAt(timers, i)
    /\ out' = << Cmd(timers[i].ps, "System", "SetCloudflareURL",
                     [value |-> timers[i].url, carId |-> timers[i].carId]) >>
    /\ disconnects' = << >>
    /\ lastOp' = Op("timer", "handoff", NoHandle)
    /\ UNCHANGED <<regVars, supVars, apiVars, genVars, feedVars, carVars, lsnVars, cfgVars, wfVars, inflight, histVars>>

\* The engine answers a Car/LoadById it received.
EngineReplyLoad(c, status) ==
    /\ c \in inflight
    /\ inflight' = inflight \ {c}
    /\ DeliverInfo(Msg(Namespace, "Car", "LoadById", status, Undef), 1, c)

\* The engine answers an Environment/ChangeBackground it received.
EngineReplyBackground(status) ==
    /\ "ChangeBackground" \in inflight
    /\ inflight' = inflight \ {"ChangeBackground"}
    /\ DeliverInfo(Msg(Namespace, "Environment", "ChangeBackground", status, Undef),
                   1, NoId)

\* The engine answers a Sequence/GetSequences it received.
EngineReplySequences(msg) ==
    /\ "GetSequences" \in inflight
    /\ IsEv(msg, "Sequence", "GetSequences")
    /\ msg.ns = Namespace
    /\ inflight' = inflight \ {"GetSequences"}
    /\ DeliverInfo(msg, 1, NoId)

\* The state of a mounted page: the viewer's first initializePixelStreaming
\* either registered its handle (before the page's effects ran, so that the
\* 'Info' listener sits on it) or threw.
PageMounted ==
    /\ PageInit /\ ObsInit /\ ApiInit /\ GenInit /\ FeedInit
    /\ isWebSocketConnected = FALSE
    /\ isVideoStreamActive = FALSE
    /\ lsnReady = FALSE
    /\ \/ /\ globalPixelStreaming = Streaming
          /\ psListeners = {Streaming}
          /\ infoListenerOn = Streaming
          /\ SupIs(SupMounted)
       \/ /\ globalPixelStreaming = NoHandle
          /\ psListeners = {}
          /\ infoListenerOn = NoHandle
          /\ SupIs(SupRetrying)


\* ---------------------------------------------------- command emitters

Colours == {"col_black", "col_red"}
ColourName(id) == IF id = "col_black" THEN "Black" ELSE "Red"
ColourValue(id) == IF id = "col_black" THEN "#0a0a0a" ELSE "#7a3535"
Wheels == {"wh1", "wh2"}

BackgroundImage(bg, day) ==
    CASE bg = "Studio_White" -> "/images/backgrounds/white_studio.jpg"
      [] day -> "/images/backgrounds/forest_nature_day.jpg"
      [] OTHER -> "/images/backgrounds/forest_nature_night.jpg"

\* The guard every emitter starts with: the isReady state of the page (set
\* by the last readiness poll), then a non-null getPS().
CanEmit(ready, ps) == ready /\ ps # NoHandle

\* An emitter that leaves the workflow state alone.
Emitter(name, cmds) ==
    /\ out' = cmds
    /\ disconnects' = << >>
    /\ lastOp' = Op(name, "", NoHandle)
    /\ inflight' = inflight \cup Requests(cmds)
    /\ UNCHANGED <<regVars, supVars, apiVars, genVars, feedVars, carVars, wfVars, timers, histVars>>
    /\ ListenerEffect(DepsChanged(FALSE))

onPickColor(col) ==
    LET go == CanEmit(isReady, getPS) IN
    /\ Emitter("onPickColor",
               IF go THEN << Cmd(getPS, "Car", "SetColor",
                                 [value |-> ColourName(col), hex |-> ColourValue(col),
                                  carId |-> carId]) >>
               ELSE << >>)
    /\ selectedColorId' = IF go THEN col ELSE selectedColorId
    /\ UNCHANGED <<selectedWheelId, selectedBackground, isDayMode>>

onPickWheel(w) ==
    LET go == CanEmit(isReady, getPS) IN
    /\ Emitter("onPickWheel",
               IF go THEN << Cmd(getPS, "Car", "SetWheel",
                                 [value |-> w, carId |-> carId]) >>
               ELSE << >>)
    /\ selectedWheelId' = IF go THEN w ELSE selectedWheelId
    /\ UNCHANGED <<selectedColorId, selectedBackground, isDayMode>>

handleBackgroundChange(bg) ==
    LET go == CanEmit(isReady, getPS) IN
    /\ Emitter("handleBackgroundChange",
               IF go THEN << Cmd(getPS, "Environment", "ChangeBackground",
                                 [backgroundId |-> bg,
                                  backgroundImage |-> BackgroundImage(bg, isDayMode),
                                  isDay |-> isDayMode, carId |-> carId]) >>
               ELSE << >>)
    /\ selectedBackground' = IF go THEN bg ELSE selectedBackground
    /\ UNCHANGED <<selectedColorId, selectedWheelId, isDayMode>>

handleDayNightToggle ==
    LET go == CanEmit(isReady, getPS)
        newDayMode == ~isDayMode
    IN
    /\ Emitter("handleDayNightToggle",
               IF go THEN << Cmd(getPS, "Environment", "ChangeDayNight",
                                 [backgroundId |-> selectedBackground,
                                  backgroundImage |->
                                      BackgroundImage(selectedBackground, newDayMode),
                                  isDay |-> newDayMode, carId |-> carId]) >>
               ELSE << >>)
    /\ isDayMode' = IF go THEN newDayMode ELSE isDayMode
    /\ UNCHANGED <<selectedColorId, selectedWheelId, selectedBackground>>

handleScreenshot ==
    /\ Emitter("handleScreenshot",
               IF CanEmit(isReady, getPS)
               THEN << Cmd(getPS, "System", "TakeScreenshot", [carId |-> carId]) >>
               ELSE << >>)
    /\ UNCHANGED cfgVars

handleScreenshotNoBackground ==
    /\ Emitter("handleScreenshotNoBackground",
               IF CanEmit(isReady, getPS)
               THEN << Cmd(getPS, "System", "TakeScreenshotNoBackground",
                           [carId |-> carId]) >>
               ELSE << >>)
    /\ UNCHANGED cfgVars

\* ------------------------------------------------------- video mode

\* An operation of the video panel: it touches the workflow state and the
\* timers only.
VideoOpAs(op, cmds, jobSet) ==
    /\ out' = cmds
    /\ disconnects' = << >>
    /\ lastOp' = op
    /\ inflight' = inflight \cup Requests(cmds)
    /\ UNCHANGED <<regVars, supVars, apiVars, genVars, carVars, cfgVars, screenshots, histVars>>
    /\ ListenerEffect(DepsChanged(jobSet))
    /\ ConvertEffect

VideoOp(name, arg, cmds, jobSet) == VideoOpAs(Op(name, arg, NoHandle), cmds, jobSet)

\* The mode toggle, with the effect on [mode, isReady].
SetMode(m) ==
    LET fx == ModeEffectRuns(m, isReady, sequences) IN
    /\ mode' = m
    /\ isLoadingSequences' = IF fx THEN getPS # NoHandle ELSE isLoadingSequences
    /\ UNCHANGED <<sequences, selectedSequences, isPlaying, renderJob, timers>>
    /\ VideoOp("setMode", m,
               IF fx THEN DiscoveryCommands(isReady, getPS, carId) ELSE << >>, FALSE)

\* The re-discovery timer of a background change: loadSequencesForCurrentLevel
\* as the listener captured it.
FireReseq(i) ==
    LET t == timers[i]
        runs == DiscoveryRuns(t.ready)
    IN
    /\ i \in 1..Len(timers)
    /\ t.kind = "reseq"
    /\ timers' = RemoveAt(timers, i)
    /\ isLoadingSequences' = IF runs THEN getPS # NoHandle ELSE isLoadingSequences
    /\ sequences' = IF runs THEN << >> ELSE sequences
    /\ UNCHANGED <<mode, selectedSequences, isPlaying, renderJob>>
    /\ VideoOp("timer", "reseq", DiscoveryCommands(t.ready, getPS, t.carId), FALSE)

Includes(q, x) == \E i \in 1..Len(q) : q[i] = x

\* prev.filter(id => id !== x)
Without(q, x) == SelectSeq(q, LAMBDA y : y # x)

ToggleResult_AlwaysAppend(q, x) == Append(q, x)

ToggleResult_Prepend(q, x) == IF Includes(q, x) THEN Without(q, x) ELSE <<x>> \o q

\* handleToggleSequence's updater.
ToggleResult(q, x) == IF Includes(q, x) THEN Without(q, x) ELSE Append(q, x)

handleToggleSequence(x) ==
    /\ Len(ToggleResult(selectedSequences, x)) <= MaxQueue
    /\ selectedSequences' = ToggleResult(selectedSequences, x)
    /\ UNCHANGED <<mode, sequences, isLoadingSequences, isPlaying, renderJob, timers>>
    /\ VideoOpAs([op |-> "handleToggleSequence", arg |-> x, h |-> NoHandle,
                  before |-> selectedSequences,
                  first |-> IF lastOp.op = "handleToggleSequence" /\ lastOp.arg = x
                            THEN << lastOp.before >> ELSE << >>],
                 << >>, FALSE)

handleClearSequences ==
    /\ selectedSequences' = << >>
    /\ UNCHANGED <<mode, sequences, isLoadingSequences, isPlaying, renderJob, timers>>
    /\ VideoOp("handleClearSequences", "", << >>, FALSE)

\* prev.filter((_, i) => i !== index)
handleRemoveSequence(index) ==
    /\ selectedSequences' =
         IF index \in 1..Len(selectedSequences) THEN RemoveAt(selectedSequences, index)
         ELSE selectedSequences
    /\ UNCHANGED <<mode, sequences, isLoadingSequences, isPlaying, renderJob, timers>>
    /\ VideoOp("handleRemoveSequence", "", << >>, FALSE)

InsertAt(q, i, x) ==
    [k \in 1..(Len(q) + 1) |-> IF k < i THEN q[k] ELSE IF k = i THEN x ELSE q[k - 1]]

ReorderResult_InsertAfter(q, from, to) ==
    InsertAt(RemoveAt(q, from), Min(to + 1, Len(q)), q[from])

\* splice(fromIndex, 1) then splice(toIndex, 0, moved).
ReorderResult(q, from, to) == InsertAt(RemoveAt(q, from), to, q[from])

\* handleReorderSequence with both indexes inside the list.
handleReorderSequence(from, to) ==
    /\ from \in 1..Len(selectedSequences)
    /\ to \in 1..Len(selectedSequences)
    /\ selectedSequences' = ReorderResult(selectedSequences, from, to)
    /\ UNCHANGED <<mode, sequences, isLoadingSequences, isPlaying, renderJob, timers>>
    /\ VideoOpAs([op |-> "handleReorderSequence", arg |-> <<from, to>>, h |-> NoHandle,
                  before |-> selectedSequences,
                  first |-> IF /\ lastOp.op = "handleReorderSequence"
                               /\ lastOp.arg = <<to, from>>
                            THEN << lastOp.before >> ELSE << >>],
                 << >>, FALSE)

handlePlaySequences ==
    LET go == isReady /\ selectedSequences # << >> /\ getPS # NoHandle IN
    /\ isPlaying' = IF go THEN TRUE ELSE isPlaying
    /\ UNCHANGED <<mode, sequences, isLoadingSequences, selectedSequences, renderJob,
                   timers>>
    /\ VideoOp("handlePlaySequences", "",
               IF go THEN << Cmd(getPS, "Sequence", "PlaySequence",
                                 [data |-> [sequenceIds |-> selectedSequences]]) >>
               ELSE << >>, FALSE)

StopCmd(ps) == Cmd(ps, "Sequence", "StopSequence", [none |-> TRUE])

handleStopSequence ==
    LET go == CanEmit(isReady, getPS) IN
    /\ isPlaying' = IF go THEN FALSE ELSE isPlaying
    /\ UNCHANGED <<mode, sequences, isLoadingSequences, selectedSequences, renderJob,
                   timers>>
    /\ VideoOp("handleStopSequence", "", IF go THEN << StopCmd(getPS) >> ELSE << >>, FALSE)

\* selectedSequences.join(',')
Join(sel) ==
    CASE sel = << >> -> Str("")
      [] Len(sel) = 1 -> Str(sel[1])
      [] OTHER -> [t |-> "str", s |-> "joined", ids |-> sel]

RenderAccepted(ready, sel, job, ps) ==
    /\ ready /\ sel # << >> /\ ~IsRendering(job)
    /\ ps # NoHandle

StopBeforeRender_Never(playing, ps) == << >>

\* handleRenderSequence: the stop it sends first when sequences are playing.
StopBeforeRender(playing, ps) == IF playing THEN << StopCmd(ps) >> ELSE << >>

\* ... and the delay of the deferred render command.
RenderDelay(playing) == IF playing THEN 200 ELSE 0

handleRenderSequence ==
    LET go == RenderAccepted(isReady, selectedSequences, renderJob, getPS) IN
    /\ go => Len(timers) < MaxTimers
    /\ isPlaying' = IF go THEN FALSE ELSE isPlaying
    /\ timers' = IF go
                 THEN Append(timers, [kind |-> "render", ps |-> getPS,
                                      sel |-> selectedSequences,
                                      delay |-> RenderDelay(isPlaying)])
                 ELSE timers
    /\ UNCHANGED <<mode, sequences, isLoadingSequences, selectedSequences, renderJob>>
    /\ VideoOp("handleRenderSequence", IF go THEN "accepted" ELSE "refused",
               IF go THEN StopBeforeRender(isPlaying, getPS) ELSE << >>, FALSE)

RenderCmd(ps, sel) ==
    Cmd(ps, "Render", "RenderSequenceList",
        [data |-> [sequenceIds |-> sel, combineToSingleFile |-> Len(sel) > 1]])

\* The deferred part of handleRenderSequence.
FireRender(i, now) ==
    LET t == timers[i] IN
    /\ i \in 1..Len(timers)
    /\ t.kind = "render"
    /\ timers' = RemoveAt(timers, i)
    /\ renderJob' = Job(RenderId(now), Join(t.sel), "rendering", Num(0), Undef, Undef)
    /\ UNCHANGED <<mode, sequences, isLoadingSequences, selectedSequences, isPlaying>>
    /\ VideoOp("timer", "render", << RenderCmd(t.ps, t.sel) >>, TRUE)

\* JSON.stringify({ jobId })
CancelPayload(id) == [t |-> "str", s |-> "{\"jobId\":...}", jobId |-> id]

handleCancelRender ==
    LET go == /\ isReady /\ IsRendering(renderJob)
              /\ getPS # NoHandle
    IN
    /\ renderJob' = IF go
                    THEN [renderJob EXCEPT !.status = "failed",
                                           !.errorMessage = Str("Render cancelled by user")]
                    ELSE renderJob
    /\ UNCHANGED <<mode, sequences, isLoadingSequences, selectedSequences, isPlaying,
                   timers>>
    /\ VideoOp("handleCancelRender", "",
               IF go THEN << Cmd(getPS, "Render", "CancelRender",
                                 [data |-> CancelPayload(renderJob.id)]) >>
               ELSE << >>, go)

\* ------------------------------------------------- car-load specification

NextCar ==
    \/ WrapperInit
    \/ \E sig \in ConnSignals : PageSignal(sig)
    \/ Poll
    \/ \E c \in CarIds : ChangeCar(c)
    \/ \E c \in CarIds, st \in {"OK", "ERR"} : EngineReplyLoad(c, st)
    \/ \E i \in 1..MaxTimers : FireHandoff(i)

SpecCar == PageMounted /\ [][NextCar]_vars


\* The timers need no more than weak fairness: a setTimeout callback that
\* stays pending is run.
SpecCarFair == SpecCar /\ WF_vars(\E i \in 1..MaxTimers : FireHandoff(i))

\* ------------------------------------------------------ car-load claims

\* C6: changing the car id resets isCarLoaded, and isCarLoaded is true only
\* when the confirmation that set it answered a LoadById for the car id now
\* selected (a late confirmation for the previous car id does not count).
C6_LateConfirmationIgnored ==
    /\ lastOp.op = "changeCar" => ~isCarLoaded
    /\ isCarLoaded => loadedBy = carId

\* C7: at most one Car/LoadById is emitted for the selected car (exactly one
\* once the connection is ready), however long the confirmation takes.
C7_ExactlyOneLoadById == loadCount <= 1

IsHandoffCmd(c) == c.type = "System" /\ c.action = "SetCloudflareURL"

HandoffPending(ts) == {i \in 1..Len(ts) : ts[i].kind = "handoff"}

IsLoadOk(op) ==
    /\ op.op = "Info" /\ op.h = "object" /\ op.arg = Namespace
    /\ op.type = "Car" /\ op.action = "LoadById" /\ op.status = "OK"

C8_NoUrlNoHandoff ==
    /\ webSocketUrl = NoUrl =>
          (HandoffPending(timers) = {} /\ \A i \in 1..Len(out) : ~IsHandoffCmd(out[i]))
    /\ \A i \in 1..Len(timers) :
          timers[i].kind = "handoff" => timers[i].url = webSocketUrl

C8_Step ==
    \* a handoff is scheduled by a processed Car/LoadById OK event, one per event
    /\ IF IsLoadOk(lastOp') /\ webSocketUrl # NoUrl
       THEN /\ Len(timers') = Len(timers) + 1
            /\ timers'[Len(timers')].kind = "handoff"
            /\ timers'[Len(timers')].url = webSocketUrl
       ELSE Cardinality(HandoffPending(timers')) <= Cardinality(HandoffPending(timers))
    \* the command is emitted by a scheduled handoff, which then is gone
    /\ (\E i \in 1..Len(out') : IsHandoffCmd(out'[i])) =>
          /\ Len(out') = 1
          /\ out'[1].p.value = webSocketUrl
          /\ Cardinality(HandoffPending(timers')) = Cardinality(HandoffPending(timers)) - 1
    \* a scheduled handoff is never dropped without its command
    /\ Cardinality(HandoffPending(timers')) < Cardinality(HandoffPending(timers)) =>
          (Len(out') = 1 /\ IsHandoffCmd(out'[1]))

C8_HandoffFires ==
    (HandoffPending(timers) # {}) ~>
        (lastOp.op = "timer" /\ Len(out) = 1 /\ IsHandoffCmd(out[1]))

\* C8: a System/SetCloudflareURL command is emitted only by a handoff that a
\* processed Car/LoadById event with status OK scheduled (no other event and
\* no other status schedules one); with a URL configured every such event
\* schedules exactly one handoff carrying that URL, which is never dropped
\* and eventually emits its command; with no URL none is scheduled or
\* emitted.
C8_LoadBeforeUrlHandoff ==
    []C8_NoUrlNoHandoff /\ [][C8_Step]_vars /\ C8_HandoffFires

\* The handoff of a loaded car has just emitted its command.
C8_Witness ==
    /\ lastOp.op = "timer"
    /\ Len(out) = 1
    /\ IsHandoffCmd(out[1])
    /\ out[1].p.value = StreamUrl
    /\ isCarLoaded


\* ------------------------------------------------ emitter specification

NextEmit ==
    \/ WrapperInit
    \/ \E sig \in ConnSignals : PageSignal(sig)
    \/ Poll
    \/ \E col \in Colours : onPickColor(col)
    \/ \E w \in Wheels : onPickWheel(w)
    \/ \E bg \in Backgrounds : handleBackgroundChange(bg)
    \/ handleDayNightToggle
    \/ handleScreenshot
    \/ handleScreenshotNoBackground
    \/ handleStopSequence

SpecEmit == PageMounted /\ [][NextEmit]_vars

EmitterOps ==
    {"onPickColor", "onPickWheel", "handleBackgroundChange", "handleDayNightToggle",
     "handleScreenshot", "handleScreenshotNoBackground", "handleStopSequence"}

\* C2: an intent invoked while isPSReady() is false emits no command (an
\* emitter leaves the registry alone, so isPSReady() after the call is what
\* it was when the intent was invoked).
C2_NotReadyEmitsNothing ==
    (lastOp.op \in EmitterOps /\ ~isPSReady) => out = << >>

\* --------------------------------------------- selection-queue specification

\* The panel's indexes, 0-based in the code, 1-based here.
QueueIndexes == 1..MaxQueue

\* The engine confirms a background change.
BackgroundChanged == Msg(Namespace, "Environment", "ChangeBackground", "OK", Undef)

NextToggle ==
    \/ \E x \in SeqIds : handleToggleSequence(x)
    \/ handleClearSequences
    \/ \E i \in QueueIndexes : handleRemoveSequence(i)
    \/ \E i, j \in QueueIndexes : handleReorderSequence(i, j)
    \/ \E m \in {"photo", "video"} : SetMode(m)
    \/ InfoFrom({BackgroundChanged})
    \/ \E i \in 1..MaxTimers : FireReseq(i)

SpecToggle == PageMounted /\ [][NextToggle]_vars

\* The last two operations toggled the same id.
IsDoubleToggle == lastOp.op = "handleToggleSequence" /\ lastOp.first # << >>

Ids(q) == {q[i] : i \in 1..Len(q)}

\* C10 as stated: after toggling x twice the queue is the queue before the
\* two toggles, every id (x included) at its old position.
C10_DoubleToggleRestoresQueue ==
    IsDoubleToggle => selectedSequences = lastOp.first[1]

\* C10: after toggling x twice, x is in the queue iff it was before, the
\* queue holds the same ids, and the other ids keep their relative order; an
\* x that was in the queue is now its last element, so that the whole order
\* is the old one exactly when x was absent or last.
C10_DoubleToggleRestoresMembership ==
    IsDoubleToggle =>
        LET q0 == lastOp.first[1]
            q == selectedSequences
            x == lastOp.arg
        IN
        /\ Includes(q, x) <=> Includes(q0, x)
        /\ Ids(q) = Ids(q0)
        /\ Len(q) = Len(q0)
        /\ Without(q, x) = Without(q0, x)
        /\ Includes(q0, x) => q[Len(q)] = x
        /\ (q = q0) <=> (~Includes(q0, x) \/ q0[Len(q0)] = x)

\* An id that was first of several has been toggled twice.
C10_Witness ==
    /\ IsDoubleToggle
    /\ Len(lastOp.first[1]) > 1
    /\ lastOp.first[1][1] = lastOp.arg
    /\ selectedSequences # lastOp.first[1]


\* The last two operations were a reorder from i to j and one from j to i.
IsReorderRoundTrip == lastOp.op = "handleReorderSequence" /\ lastOp.first # << >>

Count(q, x) == Cardinality({i \in 1..Len(q) : q[i] = x})

SameMultiset(q1, q2) == \A x \in SeqIds : Count(q1, x) = Count(q2, x)

\* C11: a reorder from i to j followed by one from j to i yields the queue
\* before the two; a single reorder keeps the length and the multiset of ids
\* and puts the moved id at position j.
C11_ReorderRoundTrip ==
    lastOp.op = "handleReorderSequence" =>
        /\ Len(selectedSequences) = Len(lastOp.before)
        /\ SameMultiset(selectedSequences, lastOp.before)
        /\ selectedSequences[lastOp.arg[2]] = lastOp.before[lastOp.arg[1]]
        /\ IsReorderRoundTrip => selectedSequences = lastOp.first[1]

\* The first of three ids was moved to the end and back.
C11_Witness ==
    /\ IsReorderRoundTrip
    /\ Len(selectedSequences) = 3
    /\ lastOp.arg = <<3, 1>>
    /\ lastOp.before # selectedSequences


NoDuplicates(q) == \A i, j \in 1..Len(q) : q[i] = q[j] => i = j

\* C12: no id is in the Selection Queue twice, whatever toggles, removals,
\* reorders, clears and background-change resets came before; a toggle of an
\* absent id leaves the old queue with the id after it, a toggle of a present
\* id leaves the old queue with that id's position cut out.
C12_QueueHasNoDuplicates ==
    /\ NoDuplicates(selectedSequences)
    /\ lastOp.op = "handleToggleSequence" =>
          LET q0 == lastOp.before
              q == selectedSequences
              x == lastOp.arg
          IN
          IF \E i \in 1..Len(q0) : q0[i] = x
          THEN \E i \in 1..Len(q0) :
                  /\ q0[i] = x
                  /\ Len(q) = Len(q0) - 1
                  /\ \A k \in 1..Len(q) : q[k] = (IF k < i THEN q0[k] ELSE q0[k + 1])
          ELSE /\ Len(q) = Len(q0) + 1
               /\ q[Len(q)] = x
               /\ \A k \in 1..Len(q0) : q[k] = q0[k]

\* The middle one of three ids has been toggled off, in a queue that was
\* filled again after a background change had emptied it.
C12_Witness ==
    /\ lastOp.op = "handleToggleSequence"
    /\ Len(lastOp.before) = 3
    /\ lastOp.before[2] = lastOp.arg
    /\ mode = "video"
    /\ timers # << >>


\* ------------------------------------------- sequence-list specification

\* Answers of the engine to a discovery request: a list, a failure, a text
\* that is not JSON.
DiscoveryReplies ==
    {Msg(Namespace, "Sequence", "GetSequences", "OK", Str(SeqText)),
     Msg(Namespace, "Sequence", "GetSequences", "ERR", Undef),
     [Msg(Namespace, "Sequence", "GetSequences", "ERR", Str(SeqText))
        EXCEPT !.sequences = Get(SeqPayload, "sequences")],
     Msg(Namespace, "Sequence", "GetSequences", "OK", Str("not json"))}

\* The ids of the cards SequencesList shows (Interior and Exterior ones).
OfferedIds(seqs) ==
    {seqs[i].id.s : i \in {k \in 1..Len(seqs) :
                             /\ seqs[k].id.t = "str"
                             /\ seqs[k].category.t = "str"
                             /\ seqs[k].category.s \in {"Interior", "Exterior"}}}

\* A click on a sequence card.
ClickSequence(x) ==
    /\ x \in OfferedIds(sequences)
    /\ handleToggleSequence(x)

NextQueue ==
    \/ WrapperInit
    \/ PageSignal("webRtcConnected")
    \/ Poll
    \/ \E m \in {"photo", "video"} : SetMode(m)
    \/ \E bg \in Backgrounds : handleBackgroundChange(bg)
    \/ \E st \in {"OK", "ERR"} : EngineReplyBackground(st)
    \/ \E msg \in DiscoveryReplies : EngineReplySequences(msg)
    \/ \E i \in 1..MaxTimers : FireReseq(i)
    \/ \E x \in SeqIds : ClickSequence(x)
    \/ handleClearSequences

SpecQueue == PageMounted /\ [][NextQueue]_vars

SequenceIds(seqs) == {seqs[i].id : i \in 1..Len(seqs)}

\* C13: every id in the Selection Queue is the id of a sequence in the
\* sequence list.
C13_QueueWithinKnownSequences ==
    \A i \in 1..Len(selectedSequences) :
        Str(selectedSequences[i]) \in SequenceIds(sequences)



\* The step processed a GetSequences response whose status is not OK.
IsDiscoveryFailed(op) ==
    /\ op.op = "Info" /\ op.h = "object" /\ op.arg = Namespace
    /\ op.type = "Sequence" /\ op.action = "GetSequences" /\ op.status # "OK"

\* C17: a GetSequences response with a status other than OK leaves the
\* sequence list empty, whatever data and sequences it carries, and the
\* loading flag cleared, and changes none of the Selection Queue, isPlaying
\* and the render job.
C17_FailedDiscoveryEmptiesList ==
    [][IsDiscoveryFailed(lastOp') =>
          /\ sequences' = << >>
          /\ ~isLoadingSequences'
          /\ UNCHANGED <<selectedSequences, isPlaying, renderJob>>]_vars

\* A failed response that carries a list has been processed while a
\* sequence was selected.
C17_Witness ==
    /\ IsDiscoveryFailed(lastOp)
    /\ IsArr(lastOp.msg.sequences)
    /\ lastOp.msg.data = Str(SeqText)
    /\ selectedSequences # << >>
    /\ sequences = << >>

\* ---------------------------------------------- discovery specification

\* Raw sequence objects: any subset of one group of alias fields, each
\* field with a value of its own or with a falsy one.
IdFields == <<"sequenceId", "id", "SequenceId">>
NameFields == <<"displayName", "name", "DisplayName">>
CategoryFields == <<"category", "Category">>
DurationFields == <<"duration", "Duration">>

FieldValue(k) ==
    CASE k = "sequenceId" -> Str("s1")
      [] k = "id" -> Str("s2")
      [] k = "SequenceId" -> Str("s3")
      [] k = "displayName" -> Str("A")
      [] k = "name" -> Str("B")
      [] k = "DisplayName" -> Str("C")
      [] k = "category" -> Str("Interior")
      [] k = "Category" -> Str("Exterior")
      [] k = "duration" -> Num(5)
      [] OTHER -> Num(7)

FalsyValue(k) == IF k \in {"duration", "Duration"} THEN Num(0) ELSE Str("")

Range(t) == {t[i] : i \in 1..Len(t)}

RawObjects(fields) ==
    UNION {{Obj(f) : f \in {g \in [S -> {FieldValue(k) : k \in S} \cup {FalsyValue(k) : k \in S}] :
                               \A k \in S : g[k] \in {FieldValue(k), FalsyValue(k)}}} :
           S \in SUBSET Range(fields)}

RawSamples ==
    RawObjects(IdFields) \cup RawObjects(NameFields)
      \cup RawObjects(CategoryFields) \cup RawObjects(DurationFields)

FullRaw ==
    Obj([SequenceId |-> Str("s1"), DisplayName |-> Str("A"),
         Category |-> Str("Interior"), Duration |-> Num(5)])

OtherRaw == Obj([id |-> Str("s2"), name |-> Str("B")])

GetSequencesMsg(status, data, seqs) ==
    [Msg(Namespace, "Sequence", "GetSequences", status, data) EXCEPT !.sequences = seqs]

\* Responses with one raw object in data.sequences.
ListReplies ==
    {GetSequencesMsg("OK", Obj([sequences |-> Arr(<< raw >>)]), Undef) : raw \in RawSamples}

\* Responses in the other shapes the branch probes for, and in none of them.
ShapeReplies ==
    {GetSequencesMsg("OK", Str(SeqText), Undef),
     GetSequencesMsg("OK", Str("not json"), Undef),
     GetSequencesMsg("OK", Obj([sequences |-> Arr(<< FullRaw >>)]), Arr(<< OtherRaw >>)),
     GetSequencesMsg("OK", Obj([count |-> Num(1)]), Arr(<< OtherRaw >>)),
     GetSequencesMsg("OK", Undef, Arr(<< OtherRaw >>)),
     GetSequencesMsg("OK", Arr(<< FullRaw, OtherRaw >>), Arr(<< OtherRaw >>)),
     GetSequencesMsg("OK", Arr(<< FullRaw >>), Undef),
     GetSequencesMsg("OK", Arr(<< Null >>), Undef),
     GetSequencesMsg("OK", Arr(<< >>), Undef),
     GetSequencesMsg("OK", Obj([sequenceId |-> Str("s1"), displayName |-> Str("A")]), Undef),
     GetSequencesMsg("OK", Obj([id |-> Str("s2"), name |-> Str("B")]), Undef),
     GetSequencesMsg("OK", Obj([SequenceId |-> Str("s3"), DisplayName |-> Str("C")]), Undef),
     GetSequencesMsg("OK", Obj([sequences |-> Str("none")]), Undef),
     GetSequencesMsg("OK", Undef, Undef),
     GetSequencesMsg("OK", Null, Undef),
     GetSequencesMsg("OK", Num(3), Undef),
     GetSequencesMsg("ERR", Obj([sequences |-> Arr(<< FullRaw >>)]), Arr(<< OtherRaw >>))}

DiscoveryMessages == ListReplies \cup ShapeReplies

NextDiscovery ==
    \/ WrapperInit
    \/ PageSignal("webRtcConnected")
    \/ Poll
    \/ \E m \in {"photo", "video"} : SetMode(m)
    \/ \E msg \in DiscoveryMessages : EngineReplySequences(msg)
    \/ ClickSequence("s1")

SpecDiscovery == PageMounted /\ [][NextDiscovery]_vars

\* The last step processed a GetSequences response with status OK.
IsDiscoveryOk(op) ==
    /\ op.op = "Info" /\ op.h = "object" /\ op.arg = Namespace
    /\ op.type = "Sequence" /\ op.action = "GetSequences" /\ op.status = "OK"

\* ... whose data.sequences is a list of one raw object.
IsOneRawReply(op) ==
    /\ IsDiscoveryOk(op)
    /\ op.msg.data.t = "obj"
    /\ Get(op.msg.data, "sequences").t = "arr"
    /\ Len(Get(op.msg.data, "sequences").a) = 1
    /\ Get(op.msg.data, "sequences").a[1].t = "obj"

TheRaw(op) == Get(op.msg.data, "sequences").a[1]

Present(raw, k) == k \in DOMAIN raw.f

\* The first field of `fields` that raw has (with any value), and the first
\* one it has with a truthy value.
FirstPresent(raw, fields) ==
    fields[CHOOSE i \in 1..Len(fields) :
              /\ Present(raw, fields[i])
              /\ \A j \in 1..(i - 1) : ~Present(raw, fields[j])]

FirstTruthy(raw, fields) ==
    fields[CHOOSE i \in 1..Len(fields) :
              /\ Truthy(Get(raw, fields[i]))
              /\ \A j \in 1..(i - 1) : ~Truthy(Get(raw, fields[j]))]

AnyPresent(raw, fields) == \E i \in 1..Len(fields) : Present(raw, fields[i])

AnyTruthy(raw, fields) == \E i \in 1..Len(fields) : Truthy(Get(raw, fields[i]))

\* The list the JSON-encoded example response yields.
ExampleYieldsOneSequence ==
    (IsDiscoveryOk(lastOp) /\ lastOp.msg.data = Str(SeqText)) =>
        sequences = << [id |-> Str("s1"), name |-> Str("A"), category |-> Str("Interior"),
                        duration |-> Num(5), thumbnail |-> Undef] >>

\* C14 as stated: each normalized field is the value of the first alias the
\* raw object has.
C14_FirstPresentAliasWins ==
    /\ ExampleYieldsOneSequence
    /\ IsOneRawReply(lastOp) =>
          LET raw == TheRaw(lastOp)
              Takes(field, fields) ==
                  AnyPresent(raw, fields) =>
                      sequences[1][field] = raw.f[FirstPresent(raw, fields)]
          IN
          /\ Len(sequences) = 1
          /\ Takes("id", IdFields)
          /\ Takes("name", NameFields)
          /\ Takes("category", CategoryFields)
          /\ Takes("duration", DurationFields)

\* C14: each normalized field is the value of the first alias, in the fixed
\* order, that the raw object has with a truthy value (a non-empty string, a
\* non-zero number): id from sequenceId, id, SequenceId; name from
\* displayName, name, DisplayName; category from category, Category;
\* duration from duration, Duration.  The JSON-encoded example response
\* yields exactly one sequence with the id, name A, category Interior and
\* duration 5 it carries.
C14_FirstTruthyAliasWins ==
    /\ ExampleYieldsOneSequence
    /\ IsOneRawReply(lastOp) =>
          LET raw == TheRaw(lastOp)
              Takes(field, fields) ==
                  AnyTruthy(raw, fields) =>
                      sequences[1][field] = raw.f[FirstTruthy(raw, fields)]
          IN
          /\ Len(sequences) = 1
          /\ Takes("id", IdFields)
          /\ Takes("name", NameFields)
          /\ Takes("category", CategoryFields)
          /\ Takes("duration", DurationFields)

\* A response whose object has all three id aliases has been processed.
C14_Witness ==
    /\ IsOneRawReply(lastOp)
    /\ \A i \in 1..Len(IdFields) : Truthy(Get(TheRaw(lastOp), IdFields[i]))
    /\ sequences[1].id = Str("s1")


\* C15: a raw object without category field gets category Exterior, one
\* without duration field duration 10, one without name field the
\* normalized id as its name, one without id field the id "unknown".
C15_NormalizationDefaults ==
    IsOneRawReply(lastOp) =>
        LET raw == TheRaw(lastOp)
            n == sequences[1]
        IN
        /\ ~AnyPresent(raw, CategoryFields) => n.category = Str("Exterior")
        /\ ~AnyPresent(raw, DurationFields) => n.duration = Num(10)
        /\ ~AnyPresent(raw, NameFields) => n.name = n.id
        /\ ~AnyPresent(raw, IdFields) => n.id = Str("unknown")


\* The raw list by the probe order as C16 states it, (e) taking an object
\* that has any of the three id aliases.
ProbedSequences(e, pd) ==
    CASE IsArr(Get(pd, "sequences")) -> Get(pd, "sequences").a
      [] IsArr(e.sequences) -> e.sequences.a
      [] IsArr(pd) -> pd.a
      [] IsArr(Get(e.data, "sequences")) -> Get(e.data, "sequences").a
      [] pd.t = "obj" /\ AnyTruthy(pd, IdFields) -> << pd >>
      [] OTHER -> << >>

\* C16: the sequence list after a GetSequences OK response whose data
\* parses is the normalization of the first match of the probe order (a)
\* data.sequences, (b) the envelope's sequences, (c) data as an array, (d)
\* the envelope's data.sequences, (e) data as one object with a sequenceId,
\* id or SequenceId; it is empty when nothing matches.
C16_ProbeOrder ==
    (IsDiscoveryOk(lastOp) /\ ~SeqParseFails(lastOp.msg)) =>
        LET raw == ProbedSequences(lastOp.msg, SeqParsedData(lastOp.msg)) IN
        (\A i \in 1..Len(raw) : raw[i].t = "obj") =>
            sequences = [i \in 1..Len(raw) |-> NormalizeSequence(raw[i])]


\* ------------------------------------------------- render specification

RenderActions ==
    {"RenderStarted", "RenderProgress", "RenderComplete", "RenderFailed",
     "RenderCancelled"}

\* Payloads of render events: the JSON text with both ids, objects that
\* omit one or both, a text that is not JSON, and none.
RenderPayloads ==
    {Str(JobText), Obj([progress |-> Num(50)]), Str("not json")}

RenderMessages ==
    {Msg(Namespace, "Render", a, "OK", d) : a \in RenderActions, d \in RenderPayloads}
    \cup {Msg(Namespace, "Render", "RenderProgress", "OK",
              Obj([jobId |-> Str("j1"), progress |-> Num(50)])),
          Msg(Namespace, "Render", "RenderFailed", "OK", Undef),
          Msg(Namespace, "Sequence", "GetSequences", "OK", Str("not json"))}

NextRender ==
    \/ WrapperInit
    \/ PageSignal("webRtcConnected")
    \/ Poll
    \/ handleToggleSequence("s1")
    \/ handleRenderSequence
    \/ \E i \in 1..MaxTimers, now \in Ticks : FireRender(i, now)
    \/ InfoFrom(RenderMessages)

SpecRender == PageMounted /\ [][NextRender]_vars

\* An accepted message of one of the actions whose payload lives in data,
\* with a data string that JSON.parse rejects.
IsUnparseableData(op) ==
    /\ op.op = "Info" /\ op.msg # NullMsg
    /\ \/ op.type = "Sequence" /\ op.action = "GetSequences" /\ op.status = "OK"
       \/ op.type = "Render" /\ op.action \in RenderActions
    /\ op.msg.data.t = "str"
    /\ ~ParseJSON(op.msg.data.s).ok

\* C18: a GetSequences or Render message whose data is a string that is not
\* valid JSON is dropped: it creates or modifies no render job and adds no
\* sequence.
C18_UnparseableDataAborts ==
    [][IsUnparseableData(lastOp') =>
          /\ renderJob' = renderJob
          /\ Range(sequences') \subseteq Range(sequences)]_vars

\* An accepted RenderProgress whose payload is an object without jobId and
\* without sequenceId.
IsBareProgress(op) ==
    /\ op.op = "Info" /\ op.msg # NullMsg
    /\ op.type = "Render" /\ op.action = "RenderProgress"
    /\ RenderParsedData(op.msg).t = "obj"
    /\ Get(RenderParsedData(op.msg), "jobId") = Undef
    /\ Get(RenderParsedData(op.msg), "sequenceId") = Undef

\* C19: a RenderProgress event whose payload omits jobId and sequenceId sets
\* a job with status rendering and the event's progress; its id and
\* sequenceId are those of the tracked job, or, when none is tracked, an id
\* made of the current time and the sequenceId "unknown".
C19_BareProgressInherits ==
    [][IsBareProgress(lastOp') =>
          /\ renderJob'.t = "job"
          /\ renderJob'.status = "rendering"
          /\ renderJob'.progress = Get(RenderParsedData(lastOp'.msg), "progress")
          /\ IF renderJob # NoJob
             THEN /\ renderJob'.id = renderJob.id
                  /\ renderJob'.sequenceId = renderJob.sequenceId
             ELSE /\ \E now \in Ticks : renderJob'.id = RenderId(now)
                  /\ renderJob'.sequenceId = Str("unknown")]_vars

\* A bare RenderProgress has been applied to a job the page created for the
\* queue [s1], whose status is no longer rendering.
C19_Witness ==
    /\ IsBareProgress(lastOp)
    /\ renderJob.t = "job"
    /\ renderJob.sequenceId = Str("s1")
    /\ renderJob.id.s = "render-"
    /\ renderJob.progress = Num(50)

\* A bare RenderProgress has arrived while no job was tracked.
C19_WitnessUntracked ==
    /\ IsBareProgress(lastOp)
    /\ renderJob.t = "job"
    /\ renderJob.sequenceId = Str("unknown")

\* An accepted render event that arrives while a job is tracked.
IsRenderEvent(op) ==
    /\ op.op = "Info" /\ op.msg # NullMsg
    /\ op.type = "Render" /\ op.action \in RenderActions

\* C20: while a job is tracked, a render event whose payload has no
\* sequenceId leaves the job's sequenceId as it was, and one whose payload
\* has no jobId leaves its id as it was.
C20_RenderEventsInherit ==
    [][(IsRenderEvent(lastOp') /\ renderJob # NoJob) =>
          /\ Get(RenderParsedData(lastOp'.msg), "sequenceId") = Undef =>
                renderJob'.sequenceId = renderJob.sequenceId
          /\ Get(RenderParsedData(lastOp'.msg), "jobId") = Undef =>
                renderJob'.id = renderJob.id]_vars

\* ------------------------------------------------- cancel specification

\* Render events around a cancel request: the engine starts, advances and
\* completes a job, and confirms a cancellation with and without a payload.
CancelMessages ==
    {Msg(Namespace, "Render", "RenderStarted", "OK", Str(JobText)),
     Msg(Namespace, "Render", "RenderProgress", "OK", Obj([progress |-> Num(50)])),
     Msg(Namespace, "Render", "RenderComplete", "OK", Str(JobText)),
     Msg(Namespace, "Render", "RenderCancelled", "OK", Undef),
     Msg(Namespace, "Render", "RenderCancelled", "OK", Str(JobText))}

NextCancel ==
    \/ PageSignal("webRtcConnected")
    \/ Poll
    \/ handleToggleSequence("s1")
    \/ handleRenderSequence
    \/ \E i \in 1..MaxTimers, now \in Ticks : FireRender(i, now)
    \/ handleCancelRender
    \/ InfoFrom(CancelMessages)

SpecCancel == PageMounted /\ [][NextCancel]_vars

CancelledMessage == Str("Render cancelled by user")

\* The page is ready, holds a handle and tracks a job in status rendering.
CanCancel ==
    /\ isReady /\ getPS # NoHandle
    /\ renderJob.t = "job" /\ renderJob.status = "rendering"

IsCancelledJob(job) ==
    job.t = "job" /\ job.status = "failed" /\ job.errorMessage = CancelledMessage

\* C21: a cancel request acts only while the page is ready and the tracked
\* job has status rendering: it then emits one Render/CancelRender for the
\* job's id and sets the job to failed with the message 'Render cancelled by
\* user' in the same step; in any other state it emits nothing and changes
\* nothing.  A RenderCancelled event received when the job is in that
\* cancelled state leaves status, sequenceId, progress and message as they
\* are.
C21_CancelOnlyWhileRendering ==
    [][/\ (lastOp'.op = "handleCancelRender" /\ ~CanCancel) =>
            /\ out' = << >>
            /\ UNCHANGED <<renderJob, timers, wfVars, cfgVars, carVars>>
       /\ (lastOp'.op = "handleCancelRender" /\ CanCancel) =>
            /\ Len(out') = 1
            /\ out'[1].type = "Render" /\ out'[1].action = "CancelRender"
            /\ out'[1].p.data.jobId = renderJob.id
            /\ renderJob' = [renderJob EXCEPT !.status = "failed",
                                              !.errorMessage = CancelledMessage]
       /\ (/\ lastOp'.op = "Info" /\ lastOp'.msg # NullMsg
           /\ lastOp'.type = "Render" /\ lastOp'.action = "RenderCancelled"
           /\ IsCancelledJob(renderJob)) =>
            /\ IsCancelledJob(renderJob')
            /\ renderJob'.sequenceId = renderJob.sequenceId
            /\ renderJob'.progress = renderJob.progress]_vars

\* A cancel request has just been sent for a job at progress 50.
C21_Witness ==
    /\ lastOp.op = "handleCancelRender"
    /\ Len(out) = 1
    /\ IsCancelledJob(renderJob)
    /\ renderJob.progress = Num(50)

\* An accepted RenderProgress event.
IsProgressEvent(op) ==
    /\ op.op = "Info" /\ op.msg # NullMsg
    /\ op.type = "Render" /\ op.action = "RenderProgress"

IsTerminal(job) == job.t = "job" /\ job.status \in {"complete", "failed"}

\* C32: a RenderProgress event received while the tracked job has status
\* complete or failed leaves the job terminal: its status does not become
\* rendering again and it keeps its download url and its error message.
C32_TerminalStatesStay ==
    [][(IsProgressEvent(lastOp') /\ IsTerminal(renderJob)) =>
          /\ renderJob'.status = renderJob.status
          /\ renderJob'.downloadUrl = renderJob.downloadUrl
          /\ renderJob'.errorMessage = renderJob.errorMessage]_vars

\* ---------------------------------------------------- job specification

VideoFileUrl == Str("https://cdn/render.mp4")

\* Render events of a job's life: started, progress, complete with the
\* download url as a string, as an object and without one, failed with and
\* without a message, cancelled.
JobMessages ==
    {Msg(Namespace, "Render", "RenderStarted", "OK", Str(JobText)),
     Msg(Namespace, "Render", "RenderProgress", "OK", Obj([progress |-> Num(50)])),
     Msg(Namespace, "Render", "RenderComplete", "OK", Obj([downloadUrl |-> VideoFileUrl])),
     Msg(Namespace, "Render", "RenderComplete", "OK",
         Obj([downloadUrl |-> Obj([url |-> VideoFileUrl])])),
     Msg(Namespace, "Render", "RenderComplete", "OK", Str(JobText)),
     Msg(Namespace, "Render", "RenderFailed", "OK", Obj([errorMessage |-> Str("out of memory")])),
     Msg(Namespace, "Render", "RenderFailed", "OK", Undef),
     Msg(Namespace, "Render", "RenderCancelled", "OK", Undef)}

NextJob ==
    \/ PageSignal("webRtcConnected")
    \/ Poll
    \/ handleToggleSequence("s1")
    \/ handleRenderSequence
    \/ \E i \in 1..MaxTimers, now \in Ticks : FireRender(i, now)
    \/ handleCancelRender
    \/ InfoFrom(JobMessages)

SpecJob == PageMounted /\ [][NextJob]_vars

\* C37: the tracked job has a download url only when its status is complete
\* and an error message only when its status is failed.
C37_UrlAndMessageMatchStatus ==
    renderJob.t = "job" =>
        /\ renderJob.downloadUrl # Undef => renderJob.status = "complete"
        /\ renderJob.errorMessage # Undef => renderJob.status = "failed"

\* The job the page created for the queue [s1] has been completed by a
\* RenderComplete: it carries the url and no message.
C37_Witness ==
    /\ lastOp.op = "Info" /\ lastOp.action = "RenderComplete"
    /\ renderJob.id.s = "render-"
    /\ renderJob.sequenceId = Str("s1")
    /\ renderJob.status = "complete"
    /\ renderJob.downloadUrl = VideoFileUrl
    /\ renderJob.errorMessage = Undef

\* A cancelled job: it carries the message and no url.
C37_WitnessCancelled ==
    /\ lastOp.op = "handleCancelRender"
    /\ renderJob.t = "job"
    /\ renderJob.status = "failed"
    /\ renderJob.errorMessage = CancelledMessage
    /\ renderJob.downloadUrl = Undef

\* ----------------------------------------------- playback specification

PlaybackMessages ==
    {Msg(Namespace, "Sequence", a, st, Undef) :
        a \in {"PlaySequence", "StopSequence", "SequenceFinished"},
        st \in {"OK", "ERR"}}

NextPlayback ==
    \/ PageSignal("webRtcConnected")
    \/ Poll
    \/ handleToggleSequence("s1")
    \/ handlePlaySequences
    \/ handleStopSequence
    \/ InfoFrom(PlaybackMessages)

SpecPlayback == PageMounted /\ [][NextPlayback]_vars

IsPlaybackEvent(op, action) ==
    /\ op.op = "Info" /\ op.msg # NullMsg
    /\ op.type = "Sequence" /\ op.action = action

\* C22: isPlaying becomes true on a PlaySequence event with status OK and
\* false on one with another status, false on a StopSequence event with
\* status OK and on every SequenceFinished event; a StopSequence event with
\* another status leaves it as it is.
C22_PlaybackFollowsEvents ==
    [][/\ IsPlaybackEvent(lastOp', "PlaySequence") =>
            (isPlaying' <=> lastOp'.status = "OK")
       /\ (IsPlaybackEvent(lastOp', "StopSequence") /\ lastOp'.status = "OK") =>
            ~isPlaying'
       /\ IsPlaybackEvent(lastOp', "SequenceFinished") => ~isPlaying'
       /\ (IsPlaybackEvent(lastOp', "StopSequence") /\ lastOp'.status # "OK") =>
            (isPlaying' <=> isPlaying)]_vars

\* A failed StopSequence has been processed after playback had started: the
\* page is still playing.
C22_Witness ==
    /\ IsPlaybackEvent(lastOp, "StopSequence")
    /\ lastOp.status = "ERR"
    /\ isPlaying

\* ------------------------------------------------ cascade specification

NextCascade ==
    \/ PageSignal("webRtcConnected")
    \/ Poll
    \/ \E m \in {"photo", "video"} : SetMode(m)
    \/ \E bg \in Backgrounds : handleBackgroundChange(bg)
    \/ \E st \in {"OK", "ERR"} : EngineReplyBackground(st)
    \/ EngineReplySequences(Msg(Namespace, "Sequence", "GetSequences", "OK", Str(SeqText)))
    \/ ClickSequence("s1")
    \/ handlePlaySequences
    \/ \E i \in 1..MaxTimers : FireReseq(i)

SpecCascade == PageMounted /\ [][NextCascade]_vars

\* The settle delay elapses: a pending re-discovery timer fires.
SpecCascadeFair == SpecCascade /\ WF_vars(\E i \in 1..MaxTimers : FireReseq(i))

IsBackgroundEvent(op) ==
    /\ op.op = "Info" /\ op.msg # NullMsg
    /\ op.type = "Environment" /\ op.action = "ChangeBackground"

EmitsGetSequences ==
    \E i \in 1..Len(out) : out[i].type = "Sequence" /\ out[i].action = "GetSequences"

C23_Step ==
    /\ (IsBackgroundEvent(lastOp') /\ lastOp'.status = "OK" /\ mode = "video") =>
          /\ sequences' = << >>
          /\ selectedSequences' = << >>
          /\ ~isPlaying'
          /\ Len(timers') = Len(timers) + 1
    /\ (IsBackgroundEvent(lastOp') /\ ~(lastOp'.status = "OK" /\ mode = "video")) =>
          /\ UNCHANGED <<sequences, selectedSequences, isPlaying, timers>>
          /\ out' = << >>

C23_DiscoveryFollows ==
    (IsBackgroundEvent(lastOp) /\ lastOp.status = "OK" /\ mode = "video")
        ~> EmitsGetSequences

C23_CascadeClears == [][C23_Step]_vars

C23_FreshDiscoveryFollows ==
    (/\ IsBackgroundEvent(lastOp) /\ lastOp.status = "OK" /\ mode = "video"
     /\ \A i \in 1..Len(timers) : timers[i].kind = "reseq" => timers[i].ready)
        ~> EmitsGetSequences

\* C27: selecting another car cancels the page's pending timers, and a
\* timer that fires emits its command for the car that is selected when it
\* fires, never for a car that has been left.
C27_CarChangeCancelsTimers ==
    [][/\ lastOp'.op = "changeCar" => timers' = << >>
       /\ (lastOp'.op = "timer" /\ lastOp'.arg = "handoff") =>
            \A i \in 1..Len(out') : out'[i].p.carId = carId]_vars

\* --------------------------------------------- supervisor specification

NextSupervisor ==
    \/ WrapperInit
    \/ WrapperInitThrows
    \/ \E sig \in ConnSignals : PageSignal(sig)
    \/ \E i \in 1..MaxSupTimers, threw \in BOOLEAN : FireReconnect(i, threw)
    \/ Teardown
    \/ Poll

SpecSupervisor == PageMounted /\ [][NextSupervisor]_vars

IsLossSignal(op) ==
    /\ op.op = "signal" /\ op.h = Streaming
    /\ op.arg \in {"webRtcDisconnected", "dataChannelError"}

PendingReconnects == {i \in 1..Len(supTimers) : supTimers[i].kind = "reconnect"}

\* C24: at most one reconnect attempt is pending at any time; a disconnect
\* or data-channel-error signal leaves exactly one attempt pending, the one
\* it schedules, whether or not one was pending before, and a reconnect
\* timer that fires leaves at most one.
C24_OnePendingReconnect ==
    /\ [](Cardinality(PendingReconnects) <= 1)
    /\ [][/\ (IsLossSignal(lastOp') /\ ~cleanupDone) =>
                supTimers' = << [kind |-> "reconnect", delay |-> SignalDelay,
                                 current |-> TRUE] >>
          /\ lastOp'.op = "reconnect" => Len(supTimers') <= 1]_vars

\* A loss signal has arrived while an attempt was pending.
C24_Witness ==
    /\ IsLossSignal(lastOp)
    /\ lastOp.pending = 1
    /\ Len(supTimers) = 1
    /\ ~cleanupDone

\* C25: a disconnect or data-channel-error signal schedules one attempt
\* after 2000 ms; an attempt that throws schedules a next attempt whose
\* delay is longer than the delay that preceded the failed attempt.
C25_DelayEscalates ==
    [][/\ (IsLossSignal(lastOp') /\ ~cleanupDone) =>
            /\ Len(supTimers') = 1
            /\ supTimers'[1].delay = 2000
       /\ (lastOp'.op = "reconnect" /\ lastOp'.threw) =>
            /\ Len(supTimers') = 1
            /\ supTimers'[1].delay > lastOp'.arg]_vars

C25_FirstFailureEscalates ==
    [][(lastOp'.op = "reconnect" /\ lastOp'.threw /\ lastOp'.arg = SignalDelay) =>
            /\ Len(supTimers') = 1
            /\ supTimers'[1].delay > lastOp'.arg]_vars

\* C26: the teardown of the viewer cancels the pending timer, disconnects
\* the session handle and leaves the registry without a handle; after it no
\* step calls reconnect() or initializes again, no signal schedules
\* anything, and the registry keeps holding no handle.
C26_TeardownIsFinal ==
    [][/\ lastOp'.op = "teardown" =>
            /\ cleanupDone'
            /\ supTimers' = << >>
            /\ globalPixelStreaming' = NoHandle
            /\ streaming # NoHandle =>
                  \E i \in 1..Len(disconnects') : disconnects'[i].target = streaming
       /\ cleanupDone =>
            /\ cleanupDone'
            /\ supTimers' = << >>
            /\ globalPixelStreaming' = NoHandle
            /\ lastOp'.op = "reconnect" => lastOp'.h = NoHandle
            /\ lastOp'.op \notin {"registerPS", "initRetry", "teardown"}]_vars

\* The teardown has cancelled a pending timer.
C26_Witness ==
    /\ lastOp.op = "teardown"
    /\ lastOp.pending = 1
    /\ supTimers = << >>

\* A loss signal has arrived after the teardown.
C26_WitnessLateSignal ==
    /\ cleanupDone
    /\ IsLossSignal(lastOp)
    /\ supTimers = << >>

\* -------------------------------------------------- video specification

\* Inbound playback and render events of the video slice.
VideoMessages ==
    {Msg(Namespace, "Sequence", "PlaySequence", "OK", Undef),
     Msg(Namespace, "Sequence", "PlaySequence", "ERR", Undef),
     Msg(Namespace, "Sequence", "SequenceFinished", "OK", Undef),
     Msg(Namespace, "Render", "RenderComplete", "OK", Str(JobText)),
     Msg(Namespace, "Render", "RenderFailed", "OK", Undef)}

\* Ids offered in the video slice.
VideoIds == {"s1"}

NextVideo ==
    \/ WrapperInit
    \/ PageSignal("webRtcConnected")
    \/ Poll
    \/ \E x \in VideoIds : handleToggleSequence(x)
    \/ handlePlaySequences
    \/ handleStopSequence
    \/ handleRenderSequence
    \/ \E i \in 1..MaxTimers, now \in Ticks : FireRender(i, now)
    \/ handleCancelRender
    \/ InfoFrom(VideoMessages)

SpecVideo == PageMounted /\ [][NextVideo]_vars

SpecVideoFair ==
    SpecVideo /\ WF_vars(\E i \in 1..MaxTimers, now \in Ticks : FireRender(i, now))

IsCmd(c, type, action) == c.type = type /\ c.action = action

Emits(cmds, type, action) == \E i \in 1..Len(cmds) : IsCmd(cmds[i], type, action)

RenderPending(ts) == {i \in 1..Len(ts) : ts[i].kind = "render"}

C9_Step ==
    \* an accepted request: the stop goes out in the call when sequences were
    \* playing and not otherwise, the render command is deferred, and
    \* isPlaying is false when the call returns
    /\ (lastOp'.op = "handleRenderSequence" /\ lastOp'.arg = "accepted") =>
          /\ out' = (IF isPlaying THEN << StopCmd(getPS) >> ELSE << >>)
          /\ ~isPlaying'
          /\ Len(timers') = Len(timers) + 1
          /\ timers'[Len(timers')].kind = "render"
          /\ timers'[Len(timers')].sel = selectedSequences
          /\ timers'[Len(timers')].delay = (IF isPlaying THEN 200 ELSE 0)
    \* a refused request does nothing
    /\ (lastOp'.op = "handleRenderSequence" /\ lastOp'.arg = "refused") =>
          (out' = << >> /\ UNCHANGED <<wfVars, timers>>)
    \* the render command is emitted by the deferred part of a request, alone
    /\ Emits(out', "Render", "RenderSequenceList") =>
          /\ lastOp'.op = "timer"
          /\ Len(out') = 1
          /\ Cardinality(RenderPending(timers')) = Cardinality(RenderPending(timers)) - 1
    \* and the deferred part is never dropped
    /\ Cardinality(RenderPending(timers')) < Cardinality(RenderPending(timers)) =>
          Emits(out', "Render", "RenderSequenceList")

C9_RenderFollows ==
    (RenderPending(timers) # {}) ~>
        (lastOp.op = "timer" /\ Emits(out, "Render", "RenderSequenceList"))

\* C9: an accepted render request made while isPlaying is true emits
\* Sequence/StopSequence in the call and defers Render/RenderSequenceList to
\* a timer the call sets, which eventually emits it: the render command of a
\* request never precedes its stop command; isPlaying is false when the call
\* returns; a request made while isPlaying is false emits no stop command.
C9_StopThenRender == [][C9_Step]_vars /\ C9_RenderFollows

\* A request made during playback has returned: the stop is out, the render
\* command is pending behind its 200 ms delay.
C9_Witness ==
    /\ lastOp.op = "handleRenderSequence"
    /\ lastOp.arg = "accepted"
    /\ Emits(out, "Sequence", "StopSequence")
    /\ ~isPlaying
    /\ \E i \in RenderPending(timers) : timers[i].delay = 200
\* C39: a render request is not accepted while the deferred render command
\* of an earlier request is still pending, and no Render/RenderSequenceList
\* is emitted while the tracked job has status rendering.
C39_OneRenderCommandPerJob ==
    [][/\ (lastOp'.op = "handleRenderSequence" /\ lastOp'.arg = "accepted") =>
             RenderPending(timers) = {}
       /\ Emits(out', "Render", "RenderSequenceList") => ~IsRendering(renderJob)]_vars

\* ------------------------------------------------ inbound specification

\* The (type, action) pairs handleUEResponse has a branch for, and one it
\* has none for.
EventKinds ==
    {<<"Car", "LoadById">>, <<"Car", "SetColor">>, <<"Car", "SetWheel">>,
     <<"Environment", "ChangeBackground">>, <<"Environment", "ChangeDayNight">>,
     <<"System", "TakeScreenshot">>, <<"System", "TakeScreenshotNoBackground">>,
     <<"Sequence", "GetSequences">>, <<"Sequence", "PlaySequence">>,
     <<"Sequence", "StopSequence">>, <<"Sequence", "SequenceFinished">>,
     <<"Render", "RenderStarted">>, <<"Render", "RenderProgress">>,
     <<"Render", "RenderComplete">>, <<"Render", "RenderFailed">>,
     <<"Render", "RenderCancelled">>, <<"System", "Ping">>}

\* A payload each branch makes something of.
SampleData(type, action) ==
    CASE type = "System" /\ action # "Ping" -> Str(UrlText)
      [] type = "Sequence" /\ action = "GetSequences" -> Str(SeqText)
      [] type = "Render" -> Str(JobText)
      [] OTHER -> Undef

SampleMsg(ns, kind, status) ==
    [Msg(ns, kind[1], kind[2], status, SampleData(kind[1], kind[2]))
       EXCEPT !.isDay = IF kind[2] = "ChangeDayNight" THEN Bool(FALSE) ELSE Undef]

\* An envelope of another namespace, and one without ns.
ForeignNs == {"Telemetry", "undefined"}

\* Foreign messages of every kind and status, a text that is not JSON and
\* the text "null".
ForeignMessages ==
    {SampleMsg(ns, kind, status) :
        ns \in ForeignNs, kind \in EventKinds, status \in {"OK", "ERR"}}
    \cup {NotJsonMsg, NullMsg}

\* Configurator events that bring the page into its workflow states.
SetupKinds ==
    {<<"Car", "LoadById">>, <<"Environment", "ChangeDayNight">>,
     <<"Sequence", "GetSequences">>, <<"Sequence", "PlaySequence">>,
     <<"Render", "RenderStarted">>}

Messages == ForeignMessages \cup {SampleMsg(Namespace, kind, "OK") : kind \in SetupKinds}

NextInfo ==
    \/ WrapperInit
    \/ PageSignal("webRtcConnected")
    \/ Poll
    \/ handleToggleSequence("s1")
    \/ InfoFrom(Messages)
    \/ \E i \in 1..MaxTimers : FireHandoff(i)

SpecInfo == PageMounted /\ [][NextInfo]_vars

\* The listener ran on a message it does not hand to handleUEResponse.
IsForeign(op) == op.op = "Info" /\ ~(op.h = "object" /\ op.arg = Namespace)

\* C1: a message on the 'Info' channel whose envelope has another ns or none
\* (or that is no envelope at all) changes none of the car-loaded flag, the
\* day/night flag, the screenshots, the sequences, the sequence-loading
\* flag, the selection queue, isPlaying and the render job, and emits and
\* schedules nothing, whatever type, action, status and data it carries.
C1_ForeignNamespaceIgnored ==
    [][IsForeign(lastOp') =>
          /\ UNCHANGED <<isCarLoaded, isDayMode, wfVars, timers>>
          /\ out' = << >>]_vars

\* A foreign message has been delivered to a page with a loaded car, loaded
\* sequences and a selection.
C1_Witness ==
    /\ IsForeign(lastOp)
    /\ lastOp.arg \in ForeignNs
    /\ isCarLoaded
    /\ sequences # << >>
    /\ selectedSequences # << >>

\* -------------------------------------------------- events specification

\* Every kind of configurator event, reported as succeeded and as failed.
EventMessages ==
    {SampleMsg(Namespace, kind, status) : kind \in EventKinds, status \in {"OK", "ERR"}}

NextEvents ==
    \/ InfoFrom(EventMessages)
    \/ \E i \in 1..MaxTimers : FireHandoff(i)

SpecEvents == PageMounted /\ [][NextEvents]_vars

\* An accepted event of the given action whose status is not OK.
IsFailedEvent(op, action) ==
    /\ op.op = "Info" /\ op.msg # NullMsg
    /\ op.action = action
    /\ op.status # "OK"

\* C33: an event whose status is not OK never has the success effect of its
\* action: a LoadById does not set the car loaded, a ChangeDayNight leaves the
\* day/night flag, a TakeScreenshot adds no screenshot, a GetSequences leaves
\* the sequence list empty, a PlaySequence does not set isPlaying, a
\* RenderStarted or RenderProgress sets no job to rendering and a
\* RenderComplete sets none to complete.
C33_FailedEventsHaveNoSuccessEffect ==
    [][/\ IsFailedEvent(lastOp', "LoadById") => isCarLoaded' = isCarLoaded
       /\ IsFailedEvent(lastOp', "ChangeDayNight") => isDayMode' = isDayMode
       /\ (\/ IsFailedEvent(lastOp', "TakeScreenshot")
           \/ IsFailedEvent(lastOp', "TakeScreenshotNoBackground")) =>
              screenshots' = screenshots
       /\ IsFailedEvent(lastOp', "GetSequences") => sequences' = << >>
       /\ IsFailedEvent(lastOp', "PlaySequence") => ~isPlaying'
       /\ (\/ IsFailedEvent(lastOp', "RenderStarted")
           \/ IsFailedEvent(lastOp', "RenderProgress")) =>
              (IsRendering(renderJob') => renderJob' = renderJob)
       /\ IsFailedEvent(lastOp', "RenderComplete") =>
              ((renderJob'.t = "job" /\ renderJob'.status = "complete") =>
                   renderJob' = renderJob)]_vars

\* The same for the branches of the car, the environment, the screenshots
\* and the sequences alone.
C33_NonRenderFailedEvents ==
    [][/\ IsFailedEvent(lastOp', "LoadById") => isCarLoaded' = isCarLoaded
       /\ IsFailedEvent(lastOp', "ChangeDayNight") => isDayMode' = isDayMode
       /\ (\/ IsFailedEvent(lastOp', "TakeScreenshot")
           \/ IsFailedEvent(lastOp', "TakeScreenshotNoBackground")) =>
              screenshots' = screenshots
       /\ IsFailedEvent(lastOp', "GetSequences") => sequences' = << >>
       /\ IsFailedEvent(lastOp', "PlaySequence") => ~isPlaying']_vars

\* The same accepted event has been delivered twice in a row.
IsRedelivery == lastOp.op = "Info" /\ lastOp.msg # NullMsg /\ lastOp' = lastOp

\* C36: the second of two consecutive deliveries of the same event leaves the
\* car-loaded flag, the day/night flag, the screenshots, the sequences, the
\* selection queue, isPlaying and the render job as the first left them.
C36_RedeliveryChangesNothing ==
    [][IsRedelivery =>
          UNCHANGED <<isCarLoaded, isDayMode, screenshots, sequences,
                      selectedSequences, isPlaying, renderJob>>]_vars

\* The same for every event but the two screenshot events.
C36_RedeliveryButScreenshots ==
    [][(IsRedelivery /\ lastOp.type # "System") =>
          UNCHANGED <<isCarLoaded, isDayMode, screenshots, sequences,
                      selectedSequences, isPlaying, renderJob>>]_vars

\* ------------------------------------------------------ registry claims

\* C3: registerPS(new) while a different non-null handle old is current
\* makes exactly one disconnect attempt, on old, made while getPS() still
\* returns old; new is the current handle afterwards whether or not the
\* disconnect threw.  registerPS(h) with h already current makes none.
C3_RegisterDisconnectsOldOnce ==
    lastOp.op = "registerPS" =>
        /\ (lastOp.h # NoHandle /\ lastOp.arg # NoHandle /\ lastOp.arg # lastOp.h) =>
              /\ Len(disconnects) = 1
              /\ disconnects[1].target = lastOp.h
              /\ disconnects[1].current = lastOp.h
              /\ getPS = lastOp.arg
        /\ (lastOp.arg = lastOp.h) => disconnects = << >>

\* A replacement of ps1/ps2 by the other whose disconnect threw.
C3_Witness ==
    /\ lastOp.op = "registerPS"
    /\ lastOp.h \in Handles
    /\ lastOp.arg \in Handles \ {lastOp.h}
    /\ Len(disconnects) = 1
    /\ disconnects[1].threw
    /\ getPS = lastOp.arg

C4_AfterRegister ==
    lastOp.op = "registerPS" =>
        /\ lastOp.arg # NoHandle => (getPS = lastOp.arg /\ ~isPSReady)
        /\ lastOp.arg = NoHandle =>
              (getPS = NoHandle /\ ~isWebSocketConnected /\ ~isVideoStreamActive)

C4_BecomesReadyOnlyOnConnected ==
    (~isPSReady /\ isPSReady') =>
        (lastOp'.op = "signal" /\ lastOp'.arg = "webRtcConnected")

\* C4: right after registerPS(h), h non-null, the registry is not ready, and
\* it turns ready only in a step that is a webRtcConnected signal; right
\* after registerPS(null) there is no handle and the connected and the
\* video-active flag are false.  (isPSReady is, by its definition, the
\* conjunction of "a handle is registered" and the connected flag.)
C4_ReadyNeedsConnectedSignal ==
    []C4_AfterRegister /\ [][C4_BecomesReadyOnlyOnConnected]_vars

\* The current handle has been registered again, after each of the two
\* handles had been registered at some time: the registry is not ready.
C4_Witness ==
    /\ lastOp.op = "registerPS"
    /\ lastOp.arg \in Handles
    /\ lastOp.h = lastOp.arg
    /\ psListeners = Handles
    /\ ~isPSReady

\* C5: after a webRtcDisconnected or a dataChannelError signal on the
\* registered handle the connected flag is false and isPSReady() is false.
C5_TransportLossClearsReady ==
    (/\ lastOp.op = "signal"
     /\ lastOp.arg \in {"webRtcDisconnected", "dataChannelError"}
     /\ lastOp.h = getPS)
        => (~isWebSocketConnected /\ ~isPSReady)

\* C38: isPSReady() turns true only in a step in which the registered handle
\* itself fires webRtcConnected; a signal fired by another handle, one that
\* was registered before and has been replaced, does not make the registry
\* ready.
C38_ReadyBySignalOfCurrentHandle ==
    [][(~isPSReady /\ isPSReady') =>
          /\ lastOp'.op = "signal"
          /\ lastOp'.arg = "webRtcConnected"
          /\ lastOp'.h = getPS']_vars

\* ---------------------------------------------------- api specification

NextApi ==
    \/ Post(MaskCalls)
    \/ Post(SceneCalls)
    \/ \E c \in CallIds : AttemptSucceeds(c)
    \/ \E c \in CallIds, error \in ServiceErrors : AttemptFails(c, error)
    \/ \E c \in CallIds : DelayElapsed(c)

SpecApi == PageMounted /\ [][NextApi]_vars

\* withTimeout ends every attempt, and setTimeout every delay.
SpecApiFair ==
    /\ SpecApi
    /\ \A c \in CallIds :
          /\ WF_vars(AttemptSucceeds(c) \/ \E error \in ServiceErrors : AttemptFails(c, error))
          /\ WF_vars(DelayElapsed(c))

\* The errors the retry policy names: status 429, 502, 503 or 504, or one
\* of the timeout and network class.
NamedRetryable(error) ==
    \/ error.status \in {429, 502, 503, 504}
    \/ error.text \in {"network error", "Request timed out after 60000ms"}

C29_Step ==
    /\ \A c \in CallIds : calls'[c].attempt <= 3
    /\ lastOp'.op = "retry" =>
          /\ calls'[lastOp'.arg].attempt = calls[lastOp'.arg].attempt + 1
          /\ calls[lastOp'.arg].attempt < 3
          /\ NamedRetryable(lastOp'.error)
    /\ lastOp'.op \in {"image", "error"} =>
          \A c \in CallIds : calls'[c].attempt = calls[c].attempt
    /\ (lastOp'.op = "error" /\ ~NamedRetryable(lastOp'.error)) =>
          calls'[lastOp'.arg].state = "failed"

C29_Terminates ==
    \A c \in CallIds : (calls[c].state = "trying") ~> Settled(calls[c])

\* C29: a generation call makes at most 3 attempts; a further attempt is
\* made only after an attempt that failed with a retryable error and was not
\* the third; an error that is not retryable ends the call at once with
\* failure; every call ends, with an image or with failure.
C29_BoundedRetries == [][C29_Step]_vars /\ C29_Terminates

\* A call has failed after three attempts.
C29_Witness ==
    \E c \in CallIds : calls[c].state = "failed" /\ calls[c].attempt = 3

\* C30: generate-scene answers when its three generations have ended: with
\* the images of those that succeeded, in prompt order, if there is one, and
\* with an error if and only if all three failed; a generation that fails
\* leaves the other two as they are.
C30_SceneReturnsSucceeded ==
    /\ [](response.route = "generate-scene" =>
            /\ \A i \in 1..3 : Settled(calls[SceneCalls[i]])
            /\ response.ok <=> \E i \in 1..3 : calls[SceneCalls[i]].state = "ok"
            /\ response.ok => Len(response.urls) \in 1..3
            /\ \A c \in {"v1", "v2", "v3"} :
                  calls[c].state = "ok" <=> \E k \in 1..Len(response.urls) : response.urls[k] = c
            /\ \A j, k \in 1..Len(response.urls) :
                  j < k => \E a, b \in 1..3 : /\ a < b
                                               /\ SceneCalls[a] = response.urls[j]
                                               /\ SceneCalls[b] = response.urls[k])
    /\ []((\A i \in 1..3 : Settled(calls[SceneCalls[i]])) => response.route = "generate-scene")
    /\ [][lastOp'.op = "error" =>
            \A c \in CallIds \ {lastOp'.arg} : calls'[c] = calls[c]]_vars

\* The first and the third generation succeeded, the second failed.
C30_Witness ==
    /\ response.route = "generate-scene"
    /\ response.urls = << "v1", "v3" >>
    /\ calls["v2"].state = "failed"

\* Every generation of generate-scene failed, and the last attempt of each
\* ended with an error of the given kind.
AllFailedBy(IsCause(_)) ==
    \A i \in 1..3 : /\ calls[SceneCalls[i]].state = "failed"
                     /\ IsCause(calls[SceneCalls[i]].last)

IsRateLimit(error) == error.status = 429
IsTimeout(error) == error.text = "Request timed out after 60000ms"
IsSafety(error) == error.text = "blocked by safety policy"

\* C34: the error response of generate-scene carries the category of the
\* cause: the rate-limit category when all three generations failed with
\* status 429, the timeout category when all three timed out, and the safety
\* category only when a generation was rejected for safety.
C34_FailureCategoryByCause ==
    [](( response.route = "generate-scene" /\ ~response.ok) =>
          /\ AllFailedBy(IsRateLimit) => response.code = "RATE_LIMIT_ERROR"
          /\ AllFailedBy(IsTimeout) => response.code = "TIMEOUT_ERROR"
          /\ response.code = "SAFETY_ERROR" =>
                \E i \in 1..3 : IsSafety(calls[SceneCalls[i]].last))

\* ----------------------------------------------- listener specification

\* Payloads of the JSON types null, number, string and array.
AnyData == {Null, Num(5), Str("not json"), Arr(<< Null >>)}

\* The events whose handler reads data.
DataKinds ==
    {<<"System", "TakeScreenshot">>, <<"Sequence", "GetSequences">>,
     <<"Render", "RenderStarted">>, <<"Render", "RenderProgress">>,
     <<"Render", "RenderComplete">>, <<"Render", "RenderFailed">>}

\* Each of these events with each payload, the texts the listener cannot
\* read, an envelope without ns, and two well-formed events.
ListenerMessages ==
    {Msg(Namespace, kind[1], kind[2], "OK", d) : kind \in DataKinds, d \in AnyData}
    \cup {NotJsonMsg, NullMsg, Msg("undefined", "", "", "", Undef),
          Msg(Namespace, "Car", "LoadById", "OK", Undef),
          Msg(Namespace, "Sequence", "GetSequences", "OK", Str(SeqText))}

NextListener ==
    \/ InfoFrom(ListenerMessages)
    \/ \E i \in 1..MaxTimers : FireHandoff(i)

SpecListener == PageMounted /\ [][NextListener]_vars

\* The previous message made the listener or the handler throw.
AfterFailedMessage ==
    /\ lastOp.op = "Info"
    /\ \/ lastOp.h \in {"invalid", "null"}
       \/ lastOp.msg # NullMsg /\ (HandlerRaises(lastOp.msg) \/ IsUnparseableData(lastOp))

\* C28: no message makes an exception leave the listener, and the message
\* that follows one that failed to parse or to update state has its normal
\* effect: a LoadById with status OK marks the car loaded, a GetSequences
\* with one sequence fills the list.
C28_ListenerNeverThrows ==
    /\ [](lastOp.op = "Info" => ~lastOp.escaped)
    /\ [][(AfterFailedMessage /\ lastOp'.op = "Info" /\ lastOp'.msg # NullMsg) =>
             /\ (lastOp'.action = "LoadById" /\ lastOp'.status = "OK") => isCarLoaded'
             /\ lastOp'.msg.data = Str(SeqText) =>
                    (Len(sequences') = 1 /\ sequences'[1].id = Str("s1"))]_vars

\* A well-formed sequence list has been processed after messages that
\* failed: the list is filled and the car is loaded.
C28_WitnessNext ==
    /\ lastOp.op = "Info" /\ lastOp.msg # NullMsg
    /\ lastOp.msg.data = Str(SeqText)
    /\ Len(sequences) = 1
    /\ isCarLoaded

\* A text that is not JSON has been received by a page that shows a
\* sequence list: nothing left the listener and the list is still there.
C28_Witness ==
    /\ lastOp.op = "Info" /\ lastOp.h = "invalid"
    /\ ~lastOp.escaped
    /\ Len(sequences) = 1

\* ------------------------------------------------ polling specification

NextPolling ==
    \/ \E done \in BOOLEAN : SubmitVideo(done)
    \/ \E text \in OperationErrors : SubmitThrows(text)
    \/ \E done \in BOOLEAN : PollVideo(done)
    \/ \E text \in OperationErrors : PollThrows(text)
    \/ PollTimesOut

SpecPolling == PageMounted /\ [][NextPolling]_vars

\* A step that calls getVideosOperation.
IsPoll(op) == op.op \in {"poll", "pollThrew"}

\* C31: the status of a submitted operation is polled at most 60 times; an
\* operation still not done after the 60th poll makes the call fail with the
\* timeout error and is not polled again; a poll is made only of an
\* operation that has not reported done, so none follows a poll, or a
\* submission, that reported done.
C31_PollingIsBounded ==
    /\ [](operation.attempts <= 60)
    /\ [][IsPoll(lastOp') =>
            /\ operation.state = "polling"
            /\ operation'.attempts = operation.attempts + 1]_vars
    /\ [][(operation.state = "polling" /\ operation.attempts = 60) =>
            /\ operation'.state = "failed"
            /\ operation'.error = TimedOutText
            /\ operation'.attempts = 60]_vars
    /\ [][operation.state = "done" => lastOp'.op \in {"submit", "submitThrew"}]_vars

\* The call has failed with the timeout error after 60 polls.
C31_Witness ==
    /\ operation.state = "failed"
    /\ operation.error = TimedOutText
    /\ operation.attempts = 60

\* An operation has reported done at its third poll.
C31_WitnessDone ==
    /\ lastOp.op = "poll"
    /\ operation.state = "done"
    /\ operation.attempts = 3

\* ----------------------------------------------- cooldown specification

NextCooldown ==
    \/ \E imageUrl \in DroppedTexts : handleDrop(imageUrl)
    \/ \E status \in ReplyStatuses : VideoReply(status)
    \/ CooldownTick

SpecCooldown == PageMounted /\ [][NextCooldown]_vars

\* The browser fires a pending timer.
SpecCooldownFair == SpecCooldown /\ WF_vars(CooldownTick)

C35_Step ==
    /\ lastOp'.op = "VideoReply" =>
          videoCooldown' = IF lastOp'.status = 429 THEN 60 ELSE videoCooldown
    /\ lastOp'.op = "CooldownTick" => videoCooldown' = videoCooldown - 1
    /\ lastOp'.op = "handleDrop" =>
          /\ videoCooldown' = videoCooldown
          /\ videoCooldown > 0 => UNCHANGED <<genVars, feedVars, apiVars, pageVars>>
          /\ (videoCooldown = 0 /\ ~isVideoLoading /\ IsDataUrl(lastOp'.arg)) =>
                (videoFetch' /\ isVideoLoading')

\* C35: a reply with status 429 sets the cooldown to 60 and no other reply
\* changes it; each tick of its timer lowers it by one; it is never
\* negative and from any value above 0 it reaches 0; while it is above 0 no
\* request is under way and a drop changes nothing and sends nothing; at 0 a
\* dropped image is sent again.
C35_QuotaCooldown ==
    /\ [](videoCooldown \in 0..60)
    /\ [](videoCooldown > 0 => ~videoFetch)
    /\ [][C35_Step]_vars
    /\ (videoCooldown > 0) ~> (videoCooldown = 0)

\* An image has been dropped half-way through the cooldown of a quota
\* failure.
C35_Witness ==
    /\ lastOp.op = "handleDrop"
    /\ lastOp.arg = "data:image/png;base64,AAAA"
    /\ videoError = "quota"
    /\ videoCooldown = 30

\* The cooldown of a quota failure has run out.
C35_WitnessOver ==
    /\ lastOp.op = "CooldownTick"
    /\ videoError = "quota"
    /\ videoCooldown = 0

\* --------------------------------------------------- feed specification

FeedOp(name, arg) ==
    /\ lastOp' = Op(name, arg, NoHandle)
    /\ out' = << >>
    /\ disconnects' = << >>
    /\ UNCHANGED <<regVars, supVars, apiVars, genVars>>

\* prev.filter(s => s.id !== screenshotId)
WithoutShot(shots, id) == SelectSeq(shots, LAMBDA shot : shot.id # id)

\* The remove button of the screenshot at position i.
handleScreenshotRemove(i) ==
    /\ i \in 1..Len(screenshots)
    /\ screenshots' = WithoutShot(screenshots, screenshots[i].id)
    /\ UNCHANGED <<carVars, lsnVars, cfgVars, envVars, histVars, mode, sequences,
                   isLoadingSequences, selectedSequences, isPlaying, renderJob>>
    /\ ConvertEffect
    /\ FeedOp("handleScreenshotRemove", "")

\* The fetch pass i waits for settles: with the image (ok), or with a
\* response that is not ok, a rejection or data that is not base64.  The pass
\* goes on to its next fetch, or ends and stores its result.
FetchSettles(i, ok) ==
    LET pass == passes[i]
        acc == IF ok THEN Append(pass.acc, pass.todo[1]) ELSE pass.acc
    IN
    /\ i \in 1..Len(passes)
    /\ IF Len(pass.todo) = 1
       THEN /\ carImages' = FeedAfterPass(passes, i, acc, carImages)
            /\ passes' = RemoveAt(passes, i)
       ELSE /\ passes' = [passes EXCEPT ![i] = [todo |-> Tail(pass.todo), acc |-> acc]]
            /\ UNCHANGED carImages
    /\ UNCHANGED pageVars
    /\ FeedOp("FetchSettles", IF ok THEN "ok" ELSE "failed")

\* Screenshot events with a remote url.
ShotMessages ==
    {Msg(Namespace, "System", "TakeScreenshot", "OK", Str(UrlText)),
     Msg(Namespace, "System", "TakeScreenshotNoBackground", "OK", Str(UrlText))}

NextFeed ==
    \/ InfoFrom(ShotMessages)
    \/ \E i \in 1..MaxShots : handleScreenshotRemove(i)
    \/ \E i \in 1..MaxPasses, ok \in BOOLEAN : FetchSettles(i, ok)

SpecFeed == PageMounted /\ [][NextFeed]_vars

\* C40: in photo mode, when no conversion is under way, every image of the
\* feed is the image of a screenshot of the list: a screenshot that was
\* removed is not in the feed.
C40_FeedWithinScreenshots ==
    (mode = "photo" /\ passes = << >>) =>
        \A k \in 1..Len(carImages) :
            \E i \in 1..Len(screenshots) : screenshots[i].url = carImages[k]

====
